---- MODULE Spec2Model ----
(***************************************************************************)
(* A model of the coordination layer of the HPX Node.js addon: the runtime *)
(* lifecycle manager (HPXManager), the async work queue (QueueAsyncWork)   *)
(* and the thread-safe-function registry (TSFNManager).                    *)
(*                                                                         *)
(* Threads: the host thread (the calls of the addon and the complete       *)
(* callbacks), one pool thread per queued job (its execute phase), the     *)
(* std::thread that runs HPXManager::RunHPX, the HPX thread that runs      *)
(* hpx_main_handler, and the release thread of TSFNManager.                *)
(*                                                                         *)
(* An HPXManager that resetHPXManager has destroyed keeps its last field   *)
(* values in the model (alive[i] = FALSE): a thread that still holds a     *)
(* reference to it either reads and writes that stale memory (and uaf      *)
(* records it) or crashes the process (StaleAccessCrash).                  *)
(***************************************************************************)
EXTENDS Integers, Sequences, FiniteSets, TLC

\* Bounds of the model: the jobs the host issues, those of them that use a
\* host function, and the length of their input arrays.
MaxJobs == 3

MaxCallbackJobs == 1

MaxLen == 2

MaxReleaseJobs == 2

MaxRegisterCalls == 2

\* The init calls of the configuration runs, and the keys of a config object.
MaxConfigJobs == 2

MaxKeys == 1

Jobs == 1..MaxJobs

\* HPXUserConfig's member initializers.
HPXUserConfig ==
  [executionPolicy |-> "par", threshold |-> 10000, threadCount |-> 2,
   loggingEnabled |-> TRUE, logLevel |-> "INFO", addonName |-> "hpxaddon"]

\* A config object without keys.
EmptyObject == [k \in {} |-> 0]

\* Manager instances: one is constructed only when the singleton is null, that
\* is first and after a resetHPXManager, so no more than there are jobs.
Insts == 1..MaxJobs

VARIABLES
  \* hpx_manager.cpp, file scope
  g_hpx_manager_instance,   \* 0 = nullptr, else the instance
  g_hpx_manager_mutex,      \* 0 = free, else the job that holds it
  nInst,                    \* instances constructed so far
  \* HPXManager fields, per instance
  alive,                    \* constructed and not yet destroyed
  running_,
  init_promise_,            \* 0 = null, else the init job whose promise it is
  finalize_promise_,        \* "null", "unset", "0", "-1"
  finalize_signal,          \* "unset", "set", "consumed" (future read)
  hpx_thread_,              \* 0 = not joinable, else the engine thread held
  mutex_,                   \* 0 = free, else the job that holds it
  \* engine threads, named by the init job that spawned them
  initVal,                  \* value of the init promise made by job j
  runPc, runThis,           \* HPXManager::RunHPX and its this
  mainPc, mainMgr,          \* hpx_main_handler and its manager reference
  stopThrew,                \* hpx::finalize() threw in that handler
  startOutcome,             \* what hpx::start did in that thread ("none" before)
  \* jobs of QueueAsyncWork
  nJobs, kind, pc, mgr, self, inDtor, res, errorMsg, deferred,
  completeFuncRuns,
  \* TSFNManager
  releasing_, release_completed_, tsfn_list_, tsfn_copy, released, relPc,
  \* the process
  aborted,                  \* "" or why the process terminated
  abortedBy,                \* the job whose step terminated it (0: another thread)
  uaf,                      \* a destroyed manager has been accessed
  \* history
  obs,                      \* lifecycle state a job found under mutex_
  signalCount, joinCount, firedBy, stopAsked,
  \* the callback bridge of a countIf / copyIf job, per job
  tsfn,                     \* its ThreadSafeFunction: "none", "open", "aborted"
  call,                     \* its NonBlockingCall item: "none", "queued", "ran", "threw"
  done_, error, mask,       \* done, error and *mask of GetPredicateMaskBatchUsingTSFN
  ret,                      \* what jsFn.Call returned: its kind and elements
  output,                   \* the result vector of a copyIf job
  env,                      \* the host environment: "up", or "down" once torn down
  regCalls,                 \* history: RegisterTSFN calls per handle, before / during release
  releaseCalls,             \* history: Release() and Abort() calls per handle
  releaseAllCalls,          \* history: calls of ReleaseAllTSFNs
  releaseThreads,           \* history: release threads launched
  quiet,                    \* history: every earlier job had settled when the job was issued
  hostCalls,                \* times the host function was called
  input,                    \* history: the typed array's elements when the job was issued
  policy,                   \* execution policy picked by run_with_policy
  currentIndex,             \* MaskData::currentIndex
  idxRead,                  \* per element, the index its predicate call read
  settleCount,              \* Resolve / Reject calls on the job's deferred
  \* the host's side of a job's input
  dataPtr,                  \* the typed array's memory dataPtr points into
  dataCopy,                 \* CallbackData::dataCopy, what the host function is sent
  hpxInput,                 \* the vector input of hpx_count_if / hpx_copy_if
  \* hpx_config.cpp and the Logger singleton
  g_user_config,
  logger,                   \* enabled_ and currentLevel_
  configObj,                \* history: the config object of the job's initHPX call
  configBefore, configAfter \* history: g_user_config before and after that call

mgrVars == <<g_hpx_manager_instance, g_hpx_manager_mutex, nInst, alive, running_,
             init_promise_, finalize_promise_, finalize_signal, hpx_thread_, mutex_>>
engVars == <<initVal, runPc, runThis, mainPc, mainMgr, stopThrew, startOutcome>>
jobVars == <<nJobs, kind, pc, mgr, self, inDtor, res, errorMsg, deferred,
             completeFuncRuns>>
tsfnVars == <<releasing_, release_completed_, tsfn_list_, tsfn_copy, released, relPc>>
procVars == <<aborted, abortedBy, uaf>>
histVars == <<obs, signalCount, joinCount, firedBy, stopAsked>>
cbVars == <<tsfn, call, done_, error, mask, ret, output, hostCalls, input, policy,
           currentIndex, idxRead, settleCount, env>>
regVars == <<regCalls, releaseCalls, releaseAllCalls, releaseThreads, quiet>>
memVars == <<dataPtr, dataCopy, hpxInput>>
cfgVars == <<g_user_config, logger, configObj, configBefore, configAfter>>
hostVars == <<memVars, cfgVars>>
vars == <<mgrVars, engVars, jobVars, tsfnVars, procVars, histVars, cbVars, regVars,
          hostVars>>

Init ==
  /\ g_hpx_manager_instance = 0
  /\ g_hpx_manager_mutex = 0
  /\ nInst = 0
  /\ alive = [i \in Insts |-> FALSE]
  /\ running_ = [i \in Insts |-> FALSE]
  /\ init_promise_ = [i \in Insts |-> 0]
  /\ finalize_promise_ = [i \in Insts |-> "null"]
  /\ finalize_signal = [i \in Insts |-> "unset"]
  /\ hpx_thread_ = [i \in Insts |-> 0]
  /\ mutex_ = [i \in Insts |-> 0]
  /\ initVal = [j \in Jobs |-> "none"]
  /\ runPc = [j \in Jobs |-> "none"]
  /\ runThis = [j \in Jobs |-> 0]
  /\ mainPc = [j \in Jobs |-> "none"]
  /\ mainMgr = [j \in Jobs |-> 0]
  /\ stopThrew = [j \in Jobs |-> FALSE]
  /\ startOutcome = [j \in Jobs |-> "none"]
  /\ nJobs = 0
  /\ kind = [j \in Jobs |-> "none"]
  /\ pc = [j \in Jobs |-> "none"]
  /\ mgr = [j \in Jobs |-> 0]
  /\ self = [j \in Jobs |-> 0]
  /\ inDtor = [j \in Jobs |-> FALSE]
  /\ res = [j \in Jobs |-> 0]
  /\ errorMsg = [j \in Jobs |-> ""]
  /\ deferred = [j \in Jobs |-> "none"]
  /\ completeFuncRuns = [j \in Jobs |-> 0]
  /\ releasing_ = FALSE
  /\ release_completed_ = FALSE
  /\ tsfn_list_ = <<>>
  /\ tsfn_copy = <<>>
  /\ released = {}
  /\ relPc = "none"
  /\ aborted = ""
  /\ abortedBy = 0
  /\ uaf = FALSE
  /\ obs = [j \in Jobs |-> "none"]
  /\ signalCount = [i \in Insts |-> 0]
  /\ joinCount = [i \in Insts |-> 0]
  /\ firedBy = [i \in Insts |-> 0]
  /\ stopAsked = [i \in Insts |-> FALSE]
  /\ tsfn = [j \in Jobs |-> "none"]
  /\ call = [j \in Jobs |-> "none"]
  /\ done_ = [j \in Jobs |-> FALSE]
  /\ error = [j \in Jobs |-> ""]
  /\ mask = [j \in Jobs |-> <<>>]
  /\ ret = [j \in Jobs |-> [kind |-> "none", val |-> <<>>]]
  /\ env = "up"
  /\ output = [j \in Jobs |-> <<>>]
  /\ hostCalls = [j \in Jobs |-> 0]
  /\ input = [j \in Jobs |-> <<>>]
  /\ policy = [j \in Jobs |-> "none"]
  /\ currentIndex = [j \in Jobs |-> 0]
  /\ idxRead = [j \in Jobs |-> <<>>]
  /\ settleCount = [j \in Jobs |-> 0]
  /\ regCalls = [j \in Jobs |-> [early |-> 0, late |-> 0]]
  /\ releaseCalls = [j \in Jobs |-> 0]
  /\ releaseAllCalls = 0
  /\ releaseThreads = 0
  /\ quiet = [j \in Jobs |-> FALSE]
  /\ dataPtr = [j \in Jobs |-> [live |-> TRUE, val |-> <<>>]]
  /\ dataCopy = [j \in Jobs |-> <<>>]
  /\ hpxInput = [j \in Jobs |-> <<>>]
  /\ g_user_config = HPXUserConfig
  /\ logger = [enabled |-> TRUE, level |-> "INFO"]
  /\ configObj = [j \in Jobs |-> EmptyObject]
  /\ configBefore = [j \in Jobs |-> HPXUserConfig]
  /\ configAfter = [j \in Jobs |-> HPXUserConfig]

---------------------------------------------------------------------------
(* Helpers *)

\* The lifecycle state of instance i as the spec names it, read from the fields.
StateOf(i) ==
  IF ~alive[i] THEN "Destroyed"
  ELSE IF finalize_promise_[i] # "null" THEN "Stopping"
  ELSE IF running_[i] THEN "Running"
  ELSE IF hpx_thread_[i] = 0 THEN "Stopped"
  ELSE IF initVal[init_promise_[i]] = "unset" THEN "Starting"
  ELSE "Failed"

\* std::terminate: the process is gone.
Terminate(why, j) ==
  /\ aborted' = why
  /\ abortedBy' = j

\* An engine (hpx_main_handler) is executing: the HPX runtime is up.
EngineUp == \E t \in Jobs : mainPc[t] \notin {"none", "done"}

\* Destruction of the members of instance i: an unset init promise is broken.
BrokenBy(i) ==
  [k \in Jobs |-> IF k = init_promise_[i] /\ initVal[k] = "unset"
                  THEN "broken" ELSE initVal[k]]

---------------------------------------------------------------------------
(* The user configuration: SetUserConfigFromNapiObject *)

\* The values of the host: strings, numbers, booleans, and anything else.
Str(s) == [t |-> "string", s |-> s, n |-> 0]

Num(n) == [t |-> "number", s |-> "", n |-> n]

Bool(b) == [t |-> "boolean", s |-> "", n |-> IF b THEN 1 ELSE 0]

Object == [t |-> "object", s |-> "", n |-> 0]

\* The fields in the order SetUserConfigFromNapiObject parses them.
FieldOrder ==
  <<"executionPolicy", "threshold", "threadCount", "loggingEnabled", "logLevel",
    "addonName">>

\* The keys of the config objects: the fields and one the addon does not know.
Keys == {FieldOrder[n] : n \in 1..Len(FieldOrder)} \cup {"extra"}

\* What the host passes under a key: valid values, invalid ones, and values
\* of another type.
ValuesOf(k) ==
  CASE k = "executionPolicy" -> {Str("seq"), Str("par_unseq"), Str("bogus"), Num(1), Object}
    [] k = "threshold" -> {Num(1), Num(0), Str("many")}
    [] k = "threadCount" -> {Num(4), Num(0), Bool(TRUE)}
    [] k = "loggingEnabled" -> {Bool(FALSE), Str("off")}
    [] k = "logLevel" -> {Str("debug"), Str("WARN"), Str("verbose"), Num(1)}
    [] k = "addonName" -> {Str("myaddon"), Str("")}
    [] OTHER -> {Str("x")}

\* The config objects: up to MaxKeys keys.
Configs ==
  UNION {{c \in [K -> UNION {ValuesOf(k) : k \in Keys}] : \A k \in K : c[k] \in ValuesOf(k)} :
           K \in {K \in SUBSET Keys : Cardinality(K) <= MaxKeys}}

\* The keys that reach the json object j: those whose value is a string, a
\* number or a boolean.
Json(c) == {k \in DOMAIN c : c[k].t \in {"string", "number", "boolean"}}

\* ToUpperCase on the strings the model passes as a log level.
ToUpperCase(str) ==
  CASE str = "debug" -> "DEBUG"
    [] str = "verbose" -> "VERBOSE"
    [] OTHER -> str

\* j[k].get<T>() throws a type_error: get<std::string> of anything but a
\* string, get<bool> of anything but a boolean, get<int64_t> of a string.
GetThrows(c, k) ==
  /\ k \in Json(c)
  /\ IF k \in {"threshold", "threadCount"} THEN c[k].t = "string"
     ELSE IF k = "loggingEnabled" THEN c[k].t # "boolean"
     ELSE c[k].t # "string"

\* The position in FieldOrder of the first field whose get throws, or 0.
FirstThrow(c) ==
  IF \E n \in 1..Len(FieldOrder) : GetThrows(c, FieldOrder[n])
  THEN CHOOSE n \in 1..Len(FieldOrder) :
         /\ GetThrows(c, FieldOrder[n])
         /\ \A m \in 1..(n - 1) : ~GetThrows(c, FieldOrder[m])
  ELSE 0

\* One if (j.contains(k)) block: a valid value is stored; an invalid one
\* leaves the field as it is, except that of logLevel, which stores INFO.
ParseField(cfg, c, k) ==
  IF k \notin Json(c) THEN cfg
  ELSE CASE k = "executionPolicy" ->
              IF c[k].s \in {"seq", "par", "par_unseq"}
              THEN [cfg EXCEPT !.executionPolicy = c[k].s] ELSE cfg
         [] k = "threshold" ->
              IF c[k].n > 0 THEN [cfg EXCEPT !.threshold = c[k].n] ELSE cfg
         [] k = "threadCount" ->
              IF c[k].n > 0 THEN [cfg EXCEPT !.threadCount = c[k].n] ELSE cfg
         [] k = "loggingEnabled" -> [cfg EXCEPT !.loggingEnabled = (c[k].n = 1)]
         [] k = "logLevel" ->
              IF ToUpperCase(c[k].s) \in {"DEBUG", "INFO", "WARN", "ERROR"}
              THEN [cfg EXCEPT !.logLevel = ToUpperCase(c[k].s)]
              ELSE [cfg EXCEPT !.logLevel = "INFO"]
         [] k = "addonName" ->
              IF c[k].s # "" THEN [cfg EXCEPT !.addonName = c[k].s] ELSE cfg
         [] OTHER -> cfg

\* The first n fields of FieldOrder parsed from c into cfg.
RECURSIVE ParseFields(_, _, _)
ParseFields(cfg, c, n) ==
  IF n = 0 THEN cfg
  ELSE ParseField(ParseFields(cfg, c, n - 1), c, FieldOrder[n])

\* g_user_config after SetUserConfigFromNapiObject(c): every field parsed, or
\* those before the get that throws.
SetUserConfigFromNapiObject(c) ==
  ParseFields(g_user_config, c,
              IF FirstThrow(c) = 0 THEN Len(FieldOrder) ELSE FirstThrow(c) - 1)

\* run_with_policy: seq below the threshold, else the configured policy.
run_with_policy(cfg, size) ==
  IF size < cfg.threshold THEN "seq"
  ELSE IF cfg.executionPolicy = "seq" THEN "seq"
  ELSE IF cfg.executionPolicy = "par_unseq" THEN "par_unseq"
  ELSE "par"

---------------------------------------------------------------------------
(* The host thread: the addon's entry points *)

\* QueueAsyncWork: a job with a pending promise is queued for the pool.
QueueAsyncWork(k) ==
  /\ aborted = ""
  /\ env = "up"
  /\ nJobs < MaxJobs
  /\ nJobs' = nJobs + 1
  /\ kind' = [kind EXCEPT ![nJobs + 1] = k]
  /\ pc' = [pc EXCEPT ![nJobs + 1] = "queued"]
  /\ deferred' = [deferred EXCEPT ![nJobs + 1] = "pending"]
  /\ quiet' = [quiet EXCEPT ![nJobs + 1] = \A j \in 1..nJobs : pc[j] = "done"]
  /\ UNCHANGED <<mgr, self, inDtor, res, errorMsg, completeFuncRuns>>
  /\ UNCHANGED <<mgrVars, engVars, tsfnVars, procVars, histVars>>
  /\ UNCHANGED <<regCalls, releaseCalls, releaseAllCalls, releaseThreads>>

\* InitHPX on the host thread with config object c: the configuration is
\* parsed into g_user_config and the logger is initialised from it, then the
\* init job is queued.
Addon_InitHPX(c) ==
  /\ FirstThrow(c) = 0
  /\ g_user_config' = SetUserConfigFromNapiObject(c)
  /\ logger' = [enabled |-> g_user_config'.loggingEnabled,
                level |-> g_user_config'.logLevel]
  /\ QueueAsyncWork("init")
  /\ configObj' = [configObj EXCEPT ![nJobs + 1] = c]
  /\ configBefore' = [configBefore EXCEPT ![nJobs + 1] = g_user_config]
  /\ configAfter' = [configAfter EXCEPT ![nJobs + 1] = g_user_config']
  /\ UNCHANGED <<cbVars, memVars>>

\* InitHPX with a config object one of whose values has a type its get does
\* not convert: the type_error leaves SetUserConfigFromNapiObject with the
\* fields before it stored, and leaves InitHPX. The build decides whether
\* the binding turns it into an error of the host (caught) or the process
\* terminates. No job is queued.
Addon_InitHPX_throws(c, caught) ==
  /\ aborted = ""
  /\ env = "up"
  /\ FirstThrow(c) # 0
  /\ g_user_config' = SetUserConfigFromNapiObject(c)
  /\ IF caught THEN UNCHANGED <<aborted, abortedBy>>
     ELSE Terminate("exception left InitHPX", 0)
  /\ UNCHANGED <<logger, configObj, configBefore, configAfter, memVars>>
  /\ UNCHANGED <<mgrVars, engVars, jobVars, tsfnVars, uaf, histVars, cbVars, regVars>>

Addon_FinalizeHPX == QueueAsyncWork("finalize") /\ UNCHANGED <<cbVars, hostVars>>

---------------------------------------------------------------------------
(* The execute phase of an init or finalize job (a pool thread) *)

\* getHPXManager: the singleton, constructed when there is none.
getHPXManager(i) ==
  /\ g_hpx_manager_mutex = 0
  /\ IF g_hpx_manager_instance # 0
     THEN /\ i = g_hpx_manager_instance
          /\ UNCHANGED <<g_hpx_manager_instance, nInst, alive>>
     ELSE /\ nInst + 1 \in Insts
          /\ i = nInst + 1
          /\ g_hpx_manager_instance' = i
          /\ nInst' = i
          /\ alive' = [alive EXCEPT ![i] = TRUE]

Execute_getHPXManager(j) ==
  /\ aborted = ""
  /\ pc[j] = "queued"
  /\ kind[j] \in {"init", "finalize"}
  /\ \E i \in Insts :
       /\ getHPXManager(i)
       /\ mgr' = [mgr EXCEPT ![j] = i]
       /\ self' = [self EXCEPT ![j] = i]
  /\ pc' = [pc EXCEPT ![j] = IF kind[j] = "init" THEN "InitHPX" ELSE "FinalizeHPX"]
  /\ UNCHANGED <<g_hpx_manager_mutex, running_, init_promise_, finalize_promise_,
                 finalize_signal, hpx_thread_, mutex_>>
  /\ UNCHANGED <<nJobs, kind, inDtor, res, errorMsg, deferred, completeFuncRuns>>
  /\ UNCHANGED <<engVars, tsfnVars, cbVars, procVars, histVars>>
  /\ UNCHANGED <<regVars, hostVars>>

\* HPXManager::InitHPX under mutex_, and the ready future's get of the addon.
HPXManager_InitHPX(j) ==
  /\ aborted = ""
  /\ pc[j] = "InitHPX"
  /\ mutex_[self[j]] = 0
  /\ LET i == self[j] IN
     /\ obs' = [obs EXCEPT ![j] = StateOf(i)]
     /\ uaf' = (uaf \/ ~alive[i])
     /\ IF running_[i]
        THEN /\ res' = [res EXCEPT ![j] = -1]
             /\ errorMsg' = [errorMsg EXCEPT ![j] = "Failed to init HPX."]
             /\ pc' = [pc EXCEPT ![j] = "executed"]
             /\ UNCHANGED <<init_promise_, hpx_thread_, initVal, runPc, runThis,
                            aborted, abortedBy>>
        ELSE /\ initVal' = [BrokenBy(i) EXCEPT ![j] = "unset"]
             /\ init_promise_' = [init_promise_ EXCEPT ![i] = j]
             /\ UNCHANGED <<res, errorMsg>>
             /\ IF hpx_thread_[i] # 0
                THEN /\ Terminate("thread assigned while joinable", j)
                     /\ UNCHANGED <<pc, hpx_thread_, runPc, runThis>>
                ELSE /\ pc' = [pc EXCEPT ![j] = "init_get"]
                     /\ hpx_thread_' = [hpx_thread_ EXCEPT ![i] = j]
                     /\ runPc' = [runPc EXCEPT ![j] = "start"]
                     /\ runThis' = [runThis EXCEPT ![j] = i]
                     /\ UNCHANGED <<aborted, abortedBy>>
  /\ UNCHANGED <<g_hpx_manager_instance, g_hpx_manager_mutex, nInst, alive, running_,
                 finalize_promise_, finalize_signal, mutex_>>
  /\ UNCHANGED <<mainPc, mainMgr, stopThrew, startOutcome>>
  /\ UNCHANGED <<nJobs, kind, mgr, self, inDtor, deferred, completeFuncRuns>>
  /\ UNCHANGED <<signalCount, joinCount, firedBy, stopAsked>>
  /\ UNCHANGED <<tsfnVars, cbVars>>
  /\ UNCHANGED <<regVars, hostVars>>

\* fut.get() of the init job: blocks until the init promise has a value.
InitHPX_fut_get(j) ==
  /\ aborted = ""
  /\ pc[j] = "init_get"
  /\ initVal[j] \in {"0", "-1", "broken"}
  /\ res' = [res EXCEPT ![j] = IF initVal[j] = "-1" THEN -1 ELSE 0]
  /\ errorMsg' = [errorMsg EXCEPT ![j] =
                    IF initVal[j] = "0" THEN ""
                    ELSE IF initVal[j] = "-1" THEN "Failed to init HPX."
                    ELSE "future_error"]
  /\ pc' = [pc EXCEPT ![j] = "executed"]
  /\ UNCHANGED <<nJobs, kind, mgr, self, inDtor, deferred, completeFuncRuns>>
  /\ UNCHANGED <<mgrVars, engVars, tsfnVars, cbVars, procVars, histVars>>
  /\ UNCHANGED <<regVars, hostVars>>

\* What the caller of HPXManager::FinalizeHPX does with its outcome v ("0",
\* "-1", "throw"): the addon's execute sets res and err and goes on to
\* resetHPXManager, or skips to its end on an exception; the destructor
\* swallows every outcome.
FinalizeReturn(j, v) ==
  IF inDtor[j]
  THEN /\ pc' = [pc EXCEPT ![j] = "dtor_end"]
       /\ UNCHANGED <<res, errorMsg>>
  ELSE /\ pc' = [pc EXCEPT ![j] = IF v = "throw" THEN "executed" ELSE "reset"]
       /\ res' = [res EXCEPT ![j] = IF v = "-1" THEN -1 ELSE 0]
       /\ errorMsg' = [errorMsg EXCEPT ![j] =
                         IF v = "throw" THEN "future_error"
                         ELSE IF v = "-1" THEN "Failed to finalize HPX."
                         ELSE ""]

\* A FinalizeHPX that never finds a finalization in progress.
NoFinalizeInFlight(i) == FALSE

\* if (finalize_promise_): a finalization is already in progress.
FinalizeInFlight(i) == finalize_promise_[i] # "null"

\* HPXManager::FinalizeHPX from its entry to the wait on finalize_promise_.
\* signalCount counts the calls of finalize_signal_promise_.set_value().
HPXManager_FinalizeHPX(j) ==
  /\ aborted = ""
  /\ pc[j] = "FinalizeHPX"
  /\ mutex_[self[j]] = 0
  /\ LET i == self[j] IN
     /\ obs' = [obs EXCEPT ![j] = IF inDtor[j] THEN obs[j] ELSE StateOf(i)]
     /\ uaf' = (uaf \/ ~alive[i])
     /\ IF ~running_[i]
        THEN /\ FinalizeReturn(j, "-1")
             /\ UNCHANGED <<finalize_promise_, finalize_signal, mutex_,
                            signalCount, firedBy>>
        ELSE IF FinalizeInFlight(i)
        THEN \* get_future() on a promise whose future was taken: future_error
             /\ FinalizeReturn(j, "throw")
             /\ UNCHANGED <<finalize_promise_, finalize_signal, mutex_,
                            signalCount, firedBy>>
        ELSE /\ signalCount' = [signalCount EXCEPT ![i] = @ + 1]
             /\ IF finalize_signal[i] = "unset"
                THEN /\ firedBy' = [firedBy EXCEPT ![i] = j]
                     /\ finalize_promise_' = [finalize_promise_ EXCEPT ![i] = "unset"]
                     /\ finalize_signal' = [finalize_signal EXCEPT ![i] = "set"]
                     /\ mutex_' = [mutex_ EXCEPT ![i] = j]
                     /\ pc' = [pc EXCEPT ![j] = "fin_wait"]
                     /\ UNCHANGED <<res, errorMsg>>
                ELSE \* set_value() on a satisfied promise throws: catch, rethrow
                     /\ finalize_promise_' = [finalize_promise_ EXCEPT ![i] = "-1"]
                     /\ FinalizeReturn(j, "throw")
                     /\ UNCHANGED <<finalize_signal, mutex_, firedBy>>
  /\ UNCHANGED <<g_hpx_manager_instance, g_hpx_manager_mutex, nInst, alive, running_,
                 init_promise_, hpx_thread_>>
  /\ UNCHANGED <<nJobs, kind, mgr, self, inDtor, deferred, completeFuncRuns>>
  /\ UNCHANGED <<aborted, abortedBy, joinCount, stopAsked>>
  /\ UNCHANGED <<engVars, tsfnVars, cbVars>>
  /\ UNCHANGED <<regVars, hostVars>>

\* A FinalizeHPX that returns with mutex_ still locked.
FinalizeHPX_join_locked(j) ==
  /\ aborted = ""
  /\ pc[j] = "fin_wait"
  /\ finalize_promise_[self[j]] \in {"0", "-1"}
  /\ LET i == self[j]
         t == hpx_thread_[self[j]] IN
     /\ t # 0 => runPc[t] = "exited"
     /\ hpx_thread_' = [hpx_thread_ EXCEPT ![i] = 0]
     /\ joinCount' = [joinCount EXCEPT ![i] = IF t # 0 THEN @ + 1 ELSE @]
     /\ UNCHANGED mutex_
     /\ uaf' = (uaf \/ ~alive[i])
  /\ FinalizeReturn(j, "0")
  /\ UNCHANGED <<g_hpx_manager_instance, g_hpx_manager_mutex, nInst, alive, running_,
                 init_promise_, finalize_promise_, finalize_signal>>
  /\ UNCHANGED <<nJobs, kind, mgr, self, inDtor, deferred, completeFuncRuns>>
  /\ UNCHANGED <<aborted, abortedBy, obs, signalCount, firedBy, stopAsked>>
  /\ UNCHANGED <<engVars, tsfnVars, cbVars>>
  /\ UNCHANGED <<regVars, hostVars>>

\* The rest of FinalizeHPX, mutex_ still held: fut.get() blocks until the
\* engine has set finalize_promise_, hpx_thread_ is joined if joinable, and a
\* ready 0 is returned.
FinalizeHPX_join(j) ==
  /\ aborted = ""
  /\ pc[j] = "fin_wait"
  /\ finalize_promise_[self[j]] \in {"0", "-1"}
  /\ LET i == self[j]
         t == hpx_thread_[self[j]] IN
     /\ t # 0 => runPc[t] = "exited"
     /\ hpx_thread_' = [hpx_thread_ EXCEPT ![i] = 0]
     /\ joinCount' = [joinCount EXCEPT ![i] = IF t # 0 THEN @ + 1 ELSE @]
     /\ mutex_' = [mutex_ EXCEPT ![i] = 0]
     /\ uaf' = (uaf \/ ~alive[i])
  /\ FinalizeReturn(j, "0")
  /\ UNCHANGED <<g_hpx_manager_instance, g_hpx_manager_mutex, nInst, alive, running_,
                 init_promise_, finalize_promise_, finalize_signal>>
  /\ UNCHANGED <<nJobs, kind, mgr, self, inDtor, deferred, completeFuncRuns>>
  /\ UNCHANGED <<aborted, abortedBy, obs, signalCount, firedBy, stopAsked>>
  /\ UNCHANGED <<engVars, tsfnVars, cbVars>>
  /\ UNCHANGED <<regVars, hostVars>>

\* The members of instance i are destroyed: a joinable hpx_thread_ terminates
\* the process, otherwise the instance is gone, the singleton is null and the
\* finalize job goes on to ReleaseAllTSFNs.
DestroyMembers(j, i) ==
  IF hpx_thread_[i] # 0
  THEN /\ Terminate("thread destroyed while joinable", j)
       /\ UNCHANGED <<g_hpx_manager_instance, alive, initVal, pc>>
  ELSE /\ g_hpx_manager_instance' = 0
       /\ alive' = [alive EXCEPT ![i] = FALSE]
       /\ initVal' = BrokenBy(i)
       /\ pc' = [pc EXCEPT ![j] = "release"]
       /\ UNCHANGED <<aborted, abortedBy>>

\* A resetHPXManager that leaves the instance in place.
resetHPXManager_kept(j) ==
  /\ aborted = ""
  /\ pc[j] = "reset"
  /\ pc' = [pc EXCEPT ![j] = "release"]
  /\ UNCHANGED <<nJobs, kind, mgr, self, inDtor, res, errorMsg, deferred,
                 completeFuncRuns>>
  /\ UNCHANGED <<mgrVars, engVars, tsfnVars, cbVars, procVars, histVars>>
  /\ UNCHANGED <<regVars, hostVars>>

\* resetHPXManager: under g_hpx_manager_mutex the instance is deleted; its
\* destructor finalizes first when the thread is joinable and HPX is running.
resetHPXManager(j) ==
  /\ aborted = ""
  /\ pc[j] = "reset"
  /\ g_hpx_manager_mutex = 0
  /\ LET i == g_hpx_manager_instance IN
     IF i = 0
     THEN /\ pc' = [pc EXCEPT ![j] = "release"]
          /\ UNCHANGED <<g_hpx_manager_instance, g_hpx_manager_mutex, alive, initVal,
                         self, inDtor, aborted, abortedBy>>
     ELSE IF hpx_thread_[i] # 0 /\ running_[i]
     THEN /\ g_hpx_manager_mutex' = j
          /\ inDtor' = [inDtor EXCEPT ![j] = TRUE]
          /\ self' = [self EXCEPT ![j] = i]
          /\ pc' = [pc EXCEPT ![j] = "FinalizeHPX"]
          /\ UNCHANGED <<g_hpx_manager_instance, alive, initVal, aborted, abortedBy>>
     ELSE /\ DestroyMembers(j, i)
          /\ UNCHANGED <<g_hpx_manager_mutex, self, inDtor>>
  /\ UNCHANGED <<nInst, running_, init_promise_, finalize_promise_, finalize_signal,
                 hpx_thread_, mutex_>>
  /\ UNCHANGED <<runPc, runThis, mainPc, mainMgr, stopThrew, startOutcome>>
  /\ UNCHANGED <<nJobs, kind, mgr, res, errorMsg, deferred, completeFuncRuns>>
  /\ UNCHANGED <<uaf, tsfnVars, cbVars, histVars>>
  /\ UNCHANGED <<regVars, hostVars>>

\* The end of ~HPXManager after its own FinalizeHPX().get() returned or threw.
HPXManager_dtor_end(j) ==
  /\ aborted = ""
  /\ pc[j] = "dtor_end"
  /\ DestroyMembers(j, self[j])
  /\ g_hpx_manager_mutex' = 0
  /\ inDtor' = [inDtor EXCEPT ![j] = FALSE]
  /\ UNCHANGED <<nInst, running_, init_promise_, finalize_promise_, finalize_signal,
                 hpx_thread_, mutex_>>
  /\ UNCHANGED <<runPc, runThis, mainPc, mainMgr, stopThrew, startOutcome>>
  /\ UNCHANGED <<nJobs, kind, mgr, self, res, errorMsg, deferred, completeFuncRuns>>
  /\ UNCHANGED <<uaf, tsfnVars, cbVars, histVars>>
  /\ UNCHANGED <<regVars, hostVars>>

\* A RegisterTSFN that does not test releasing_.
RegisterTSFN_always(h) ==
  /\ aborted = ""
  /\ env = "up"
  /\ tsfn[h] # "none"
  /\ regCalls[h].early + regCalls[h].late < MaxRegisterCalls
  /\ regCalls' = [regCalls EXCEPT ![h] =
                    IF releasing_ THEN [@ EXCEPT !.late = @ + 1]
                    ELSE [@ EXCEPT !.early = @ + 1]]
  /\ tsfn_list_' = Append(tsfn_list_, h)
  /\ UNCHANGED <<releasing_, release_completed_, tsfn_copy, released, relPc>>
  /\ UNCHANGED <<mgrVars, engVars, jobVars, procVars, histVars, cbVars>>
  /\ UNCHANGED <<releaseCalls, releaseAllCalls, releaseThreads, quiet>>
  /\ UNCHANGED hostVars

\* TSFNManager::RegisterTSFN for the handle of job h, under tsfn_mutex_: a
\* no-op when releasing_ is set, otherwise the handle is appended to
\* tsfn_list_ (nothing looks for an entry that is already there).
RegisterTSFN(h) ==
  /\ aborted = ""
  /\ env = "up"
  /\ tsfn[h] # "none"
  /\ regCalls[h].early + regCalls[h].late < MaxRegisterCalls
  /\ regCalls' = [regCalls EXCEPT ![h] =
                    IF releasing_ THEN [@ EXCEPT !.late = @ + 1]
                    ELSE [@ EXCEPT !.early = @ + 1]]
  /\ tsfn_list_' = IF releasing_ THEN tsfn_list_ ELSE Append(tsfn_list_, h)
  /\ UNCHANGED <<releasing_, release_completed_, tsfn_copy, released, relPc>>
  /\ UNCHANGED <<mgrVars, engVars, jobVars, procVars, histVars, cbVars>>
  /\ UNCHANGED <<releaseCalls, releaseAllCalls, releaseThreads, quiet>>
  /\ UNCHANGED hostVars

\* A ReleaseAllTSFNs without the test of releasing_: every call launches
\* a release thread.
ReleaseAllTSFNs_again(j) ==
  /\ aborted = ""
  /\ pc[j] = "release"
  /\ releasing_' = TRUE
  /\ relPc' = "snapshot"
  /\ releaseThreads' = releaseThreads + 1
  /\ releaseAllCalls' = releaseAllCalls + 1
  /\ pc' = [pc EXCEPT ![j] = "executed"]
  /\ UNCHANGED <<release_completed_, tsfn_list_, tsfn_copy, released>>
  /\ UNCHANGED <<nJobs, kind, mgr, self, inDtor, res, errorMsg, deferred,
                 completeFuncRuns>>
  /\ UNCHANGED <<mgrVars, engVars, procVars, histVars>>
  /\ UNCHANGED <<cbVars, regCalls, releaseCalls, quiet>>
  /\ UNCHANGED hostVars

\* TSFNManager::ReleaseAllTSFNs as the finalize job calls it: unless a
\* release was started before, releasing_ is set, the release thread is
\* launched, and the call returns without waiting for it.
ReleaseAllTSFNs(j) ==
  /\ aborted = ""
  /\ pc[j] = "release"
  /\ IF releasing_
     THEN UNCHANGED <<releasing_, relPc, releaseThreads>>
     ELSE /\ releasing_' = TRUE
          /\ relPc' = "snapshot"
          /\ releaseThreads' = releaseThreads + 1
  /\ releaseAllCalls' = releaseAllCalls + 1
  /\ pc' = [pc EXCEPT ![j] = "executed"]
  /\ UNCHANGED <<release_completed_, tsfn_list_, tsfn_copy, released>>
  /\ UNCHANGED <<nJobs, kind, mgr, self, inDtor, res, errorMsg, deferred,
                 completeFuncRuns>>
  /\ UNCHANGED <<mgrVars, engVars, procVars, histVars>>
  /\ UNCHANGED <<cbVars, regCalls, releaseCalls, quiet>>
  /\ UNCHANGED hostVars

---------------------------------------------------------------------------
(* The engine: HPXManager::RunHPX on hpx_thread_, hpx_main_handler on HPX *)

\* What hpx::start can do: start the runtime and schedule hpx_main_handler,
\* return false, or throw. One process runs one HPX runtime, so a start while
\* an earlier hpx_main_handler still executes does not succeed.
StartOutcomes == {"started", "returned_false", "threw"}

\* HPXManager::RunHPX: hpx::start returns once the runtime is up, and the
\* thread function returns right after; a failed start sets the promise to -1.
\* set_value on a satisfied promise throws out of the thread: terminate.
RunHPX(t, o) ==
  /\ aborted = ""
  /\ runPc[t] = "start"
  /\ runPc' = [runPc EXCEPT ![t] = "exited"]
  /\ startOutcome' = [startOutcome EXCEPT ![t] = o]
  /\ uaf' = (uaf \/ ~alive[runThis[t]])
  /\ LET p == init_promise_[runThis[t]] IN
     IF o = "started"
     THEN /\ ~EngineUp
          /\ mainPc' = [mainPc EXCEPT ![t] = "getmgr"]
          /\ UNCHANGED <<initVal, aborted, abortedBy>>
     ELSE /\ UNCHANGED mainPc
          /\ IF p = 0
             THEN UNCHANGED <<initVal, aborted, abortedBy>>
             ELSE IF initVal[p] = "unset"
             THEN /\ initVal' = [initVal EXCEPT ![p] = "-1"]
                  /\ UNCHANGED <<aborted, abortedBy>>
             ELSE /\ Terminate("exception left RunHPX", 0)
                  /\ UNCHANGED initVal
  /\ UNCHANGED <<runThis, mainMgr, stopThrew>>
  /\ UNCHANGED <<mgrVars, jobVars, tsfnVars, cbVars, histVars>>
  /\ UNCHANGED <<regVars, hostVars>>

\* hpx_main_handler: manager = getHPXManager().
Main_getHPXManager(t) ==
  /\ aborted = ""
  /\ mainPc[t] = "getmgr"
  /\ \E i \in Insts :
       /\ getHPXManager(i)
       /\ mainMgr' = [mainMgr EXCEPT ![t] = i]
  /\ mainPc' = [mainPc EXCEPT ![t] = "SetRunning"]
  /\ UNCHANGED <<g_hpx_manager_mutex, running_, init_promise_, finalize_promise_,
                 finalize_signal, hpx_thread_, mutex_>>
  /\ UNCHANGED <<initVal, runPc, runThis, stopThrew, startOutcome>>
  /\ UNCHANGED <<jobVars, tsfnVars, cbVars, procVars, histVars>>
  /\ UNCHANGED <<regVars, hostVars>>

\* manager.SetRunning(true)
Main_SetRunning(t) ==
  /\ aborted = ""
  /\ mainPc[t] = "SetRunning"
  /\ running_' = [running_ EXCEPT ![mainMgr[t]] = TRUE]
  /\ mainPc' = [mainPc EXCEPT ![t] = "ResolveInit"]
  /\ uaf' = (uaf \/ ~alive[mainMgr[t]])
  /\ UNCHANGED <<g_hpx_manager_instance, g_hpx_manager_mutex, nInst, alive,
                 init_promise_, finalize_promise_, finalize_signal, hpx_thread_, mutex_>>
  /\ UNCHANGED <<initVal, runPc, runThis, mainMgr, stopThrew, startOutcome>>
  /\ UNCHANGED <<aborted, abortedBy>>
  /\ UNCHANGED <<jobVars, tsfnVars, cbVars, histVars>>
  /\ UNCHANGED <<regVars, hostVars>>

\* manager.ResolveInitPromise(0); a satisfied promise throws into the
\* handler's catch, which returns 1.
Main_ResolveInitPromise(t) ==
  /\ aborted = ""
  /\ mainPc[t] = "ResolveInit"
  /\ LET p == init_promise_[mainMgr[t]] IN
     IF p = 0
     THEN /\ mainPc' = [mainPc EXCEPT ![t] = "Wait"]
          /\ UNCHANGED initVal
     ELSE IF initVal[p] = "unset"
     THEN /\ initVal' = [initVal EXCEPT ![p] = "0"]
          /\ mainPc' = [mainPc EXCEPT ![t] = "Wait"]
     ELSE /\ mainPc' = [mainPc EXCEPT ![t] = "done"]
          /\ UNCHANGED initVal
  /\ uaf' = (uaf \/ ~alive[mainMgr[t]])
  /\ UNCHANGED <<runPc, runThis, mainMgr, stopThrew, startOutcome>>
  /\ UNCHANGED <<aborted, abortedBy>>
  /\ UNCHANGED <<mgrVars, jobVars, tsfnVars, cbVars, histVars>>
  /\ UNCHANGED <<regVars, hostVars>>

\* WaitForFinalizeHPX: finalize_signal_future_.get() blocks until the signal;
\* a second get() of the same future throws into the handler's catch.
Main_WaitForFinalizeHPX(t) ==
  /\ aborted = ""
  /\ mainPc[t] = "Wait"
  /\ finalize_signal[mainMgr[t]] # "unset"
  /\ IF finalize_signal[mainMgr[t]] = "set"
     THEN /\ finalize_signal' = [finalize_signal EXCEPT ![mainMgr[t]] = "consumed"]
          /\ mainPc' = [mainPc EXCEPT ![t] = "Finalize"]
     ELSE /\ mainPc' = [mainPc EXCEPT ![t] = "done"]
          /\ UNCHANGED finalize_signal
  /\ uaf' = (uaf \/ ~alive[mainMgr[t]])
  /\ UNCHANGED <<g_hpx_manager_instance, g_hpx_manager_mutex, nInst, alive, running_,
                 init_promise_, finalize_promise_, hpx_thread_, mutex_>>
  /\ UNCHANGED <<initVal, runPc, runThis, mainMgr, stopThrew, startOutcome>>
  /\ UNCHANGED <<aborted, abortedBy>>
  /\ UNCHANGED <<jobVars, tsfnVars, cbVars, histVars>>
  /\ UNCHANGED <<regVars, hostVars>>

\* A WaitForFinalizeHPX without its try/catch: an exception of hpx::finalize()
\* leaves it for the catch of hpx_main_handler, which returns 1.
Main_hpx_finalize_uncaught(t, threw) ==
  /\ aborted = ""
  /\ mainPc[t] = "Finalize"
  /\ stopThrew' = [stopThrew EXCEPT ![t] = threw]
  /\ stopAsked' = [stopAsked EXCEPT ![mainMgr[t]] = TRUE]
  /\ mainPc' = [mainPc EXCEPT ![t] = IF threw THEN "done" ELSE "SetResult"]
  /\ UNCHANGED <<initVal, runPc, runThis, mainMgr, startOutcome>>
  /\ UNCHANGED <<obs, signalCount, joinCount, firedBy>>
  /\ UNCHANGED <<mgrVars, jobVars, tsfnVars, cbVars, procVars>>
  /\ UNCHANGED <<regVars, hostVars>>

\* hpx::finalize() in WaitForFinalizeHPX: returns or throws; both are caught.
Main_hpx_finalize(t, threw) ==
  /\ aborted = ""
  /\ mainPc[t] = "Finalize"
  /\ stopThrew' = [stopThrew EXCEPT ![t] = threw]
  /\ stopAsked' = [stopAsked EXCEPT ![mainMgr[t]] = TRUE]
  /\ mainPc' = [mainPc EXCEPT ![t] = "SetResult"]
  /\ UNCHANGED <<initVal, runPc, runThis, mainMgr, startOutcome>>
  /\ UNCHANGED <<obs, signalCount, joinCount, firedBy>>
  /\ UNCHANGED <<mgrVars, jobVars, tsfnVars, cbVars, procVars>>
  /\ UNCHANGED <<regVars, hostVars>>

\* The end of WaitForFinalizeHPX: finalize_promise_->set_value(0).
Main_SetFinalizeResult(t) ==
  /\ aborted = ""
  /\ mainPc[t] = "SetResult"
  /\ LET i == mainMgr[t] IN
     IF finalize_promise_[i] = "null"
     THEN /\ mainPc' = [mainPc EXCEPT ![t] = "ClearRunning"]
          /\ UNCHANGED finalize_promise_
     ELSE IF finalize_promise_[i] = "unset"
     THEN /\ finalize_promise_' = [finalize_promise_ EXCEPT ![i] = "0"]
          /\ mainPc' = [mainPc EXCEPT ![t] = "ClearRunning"]
     ELSE /\ mainPc' = [mainPc EXCEPT ![t] = "done"]
          /\ UNCHANGED finalize_promise_
  /\ uaf' = (uaf \/ ~alive[mainMgr[t]])
  /\ UNCHANGED <<g_hpx_manager_instance, g_hpx_manager_mutex, nInst, alive, running_,
                 init_promise_, finalize_signal, hpx_thread_, mutex_>>
  /\ UNCHANGED <<aborted, abortedBy>>
  /\ UNCHANGED <<initVal, runPc, runThis, mainMgr, stopThrew, startOutcome>>
  /\ UNCHANGED <<jobVars, tsfnVars, cbVars, histVars>>
  /\ UNCHANGED <<regVars, hostVars>>

\* manager.SetRunning(false) and the return of hpx_main_handler.
Main_ClearRunning(t) ==
  /\ aborted = ""
  /\ mainPc[t] = "ClearRunning"
  /\ running_' = [running_ EXCEPT ![mainMgr[t]] = FALSE]
  /\ mainPc' = [mainPc EXCEPT ![t] = "done"]
  /\ uaf' = (uaf \/ ~alive[mainMgr[t]])
  /\ UNCHANGED <<g_hpx_manager_instance, g_hpx_manager_mutex, nInst, alive,
                 init_promise_, finalize_promise_, finalize_signal, hpx_thread_, mutex_>>
  /\ UNCHANGED <<initVal, runPc, runThis, mainMgr, stopThrew, startOutcome>>
  /\ UNCHANGED <<aborted, abortedBy>>
  /\ UNCHANGED <<jobVars, tsfnVars, cbVars, histVars>>
  /\ UNCHANGED <<regVars, hostVars>>

\* The threads whose next step reads or writes a destroyed HPXManager.
StaleJobs ==
  {j \in Jobs : pc[j] \in {"InitHPX", "FinalizeHPX", "fin_wait"}
                 /\ ~alive[self[j]]}

StaleEngines ==
  {t \in Jobs : \/ (runPc[t] = "start" /\ ~alive[runThis[t]])
                 \/ (mainPc[t] \in {"SetRunning", "ResolveInit", "Wait",
                                     "SetResult", "ClearRunning"}
                       /\ ~alive[mainMgr[t]])}

\* The other outcome of an access to a destroyed object: the process crashes.
StaleAccessCrash ==
  /\ aborted = ""
  /\ StaleJobs \cup StaleEngines # {}
  /\ aborted' = "access to a destroyed HPXManager"
  /\ abortedBy' = IF StaleJobs # {} THEN CHOOSE j \in StaleJobs : TRUE ELSE 0
  /\ uaf' = TRUE
  /\ UNCHANGED <<mgrVars, engVars, jobVars, tsfnVars, cbVars, histVars>>
  /\ UNCHANGED <<regVars, hostVars>>

---------------------------------------------------------------------------
(* TSFNManager's release thread *)

\* tsfn_copy = tsfn_list_; tsfn_list_.clear() under tsfn_mutex_
ReleaseThread_snapshot ==
  /\ aborted = ""
  /\ relPc = "snapshot"
  /\ tsfn_copy' = tsfn_list_
  /\ tsfn_list_' = <<>>
  /\ relPc' = "release"
  /\ UNCHANGED <<releasing_, release_completed_, released>>
  /\ UNCHANGED <<mgrVars, engVars, jobVars, procVars, histVars>>
  /\ UNCHANGED cbVars
  /\ UNCHANGED <<regVars, hostVars>>

\* The handles at the positions of the copy, counted with repetition.
Occurrences(h) == Cardinality({n \in 1..Len(tsfn_copy) : tsfn_copy[n] = h})

\* A release loop that is skipped.
ReleaseThread_release_none ==
  /\ aborted = ""
  /\ relPc = "release"
  /\ relPc' = "signal"
  /\ UNCHANGED <<releasing_, release_completed_, tsfn_list_, tsfn_copy, released>>
  /\ UNCHANGED <<mgrVars, engVars, jobVars, procVars, histVars>>
  /\ UNCHANGED <<cbVars, regVars>>
  /\ UNCHANGED hostVars

\* tsfn->Release() for each entry of the copy: an open function is released
\* by it, one that was released or aborted before stays as it is.
ReleaseThread_release ==
  /\ aborted = ""
  /\ relPc = "release"
  /\ released' = released \cup {tsfn_copy[n] : n \in 1..Len(tsfn_copy)}
  /\ tsfn' = [h \in Jobs |->
               IF Occurrences(h) > 0 /\ tsfn[h] = "open" THEN "released" ELSE tsfn[h]]
  /\ releaseCalls' = [h \in Jobs |-> releaseCalls[h] + Occurrences(h)]
  /\ relPc' = "signal"
  /\ UNCHANGED <<releasing_, release_completed_, tsfn_list_, tsfn_copy>>
  /\ UNCHANGED <<mgrVars, engVars, jobVars, procVars, histVars>>
  /\ UNCHANGED <<call, done_, error, mask, ret, output, hostCalls, input, policy,
                 currentIndex, idxRead, settleCount, env>>
  /\ UNCHANGED <<regCalls, releaseAllCalls, releaseThreads, quiet>>
  /\ UNCHANGED hostVars

\* release_completed_ = true; release_cv_.notify_all()
ReleaseThread_signal ==
  /\ aborted = ""
  /\ relPc = "signal"
  /\ release_completed_' = TRUE
  /\ relPc' = "done"
  /\ UNCHANGED <<releasing_, tsfn_list_, tsfn_copy, released>>
  /\ UNCHANGED <<mgrVars, engVars, jobVars, procVars, histVars>>
  /\ UNCHANGED cbVars
  /\ UNCHANGED <<regVars, hostVars>>

\* TSFNManager::WaitForReleaseCompletion returns in the states in which
\* release_completed_ is set.
WaitForReleaseCompletion == release_completed_

---------------------------------------------------------------------------
(* QueueAsyncWork's callbacks *)

\* What the executeFunc of a data operation can do: return a result, catch
\* its own std::exception into err, or let an exception out.
ExecuteOutcomes == {"ok", "err", "throw_std", "throw_other"}

\* An execute callback without its catch (...): an exception that is not a
\* std::exception leaves the pool thread and terminates the process.
ExecuteCallback_noCatchAll(j, o) ==
  /\ aborted = ""
  /\ pc[j] = "queued"
  /\ kind[j] = "work"
  /\ IF o = "throw_other"
     THEN /\ Terminate("exception left the execute callback", j)
          /\ UNCHANGED <<errorMsg, res, pc>>
     ELSE /\ errorMsg' = [errorMsg EXCEPT ![j] =
                           CASE o = "ok" -> ""
                             [] o = "err" -> "execute failed"
                             [] OTHER -> "what"]
          /\ res' = [res EXCEPT ![j] = IF o = "ok" THEN 1 ELSE 0]
          /\ pc' = [pc EXCEPT ![j] = "executed"]
          /\ UNCHANGED <<aborted, abortedBy>>
  /\ UNCHANGED <<nJobs, kind, mgr, self, inDtor, deferred, completeFuncRuns>>
  /\ UNCHANGED <<mgrVars, engVars, tsfnVars, cbVars, uaf, histVars>>
  /\ UNCHANGED <<regVars, hostVars>>

\* The execute callback around executeFunc: every exception becomes errorMsg.
ExecuteCallback(j, o) ==
  /\ aborted = ""
  /\ pc[j] = "queued"
  /\ kind[j] = "work"
  /\ errorMsg' = [errorMsg EXCEPT ![j] =
                    CASE o = "ok" -> ""
                      [] o = "err" -> "execute failed"
                      [] o = "throw_std" -> "what"
                      [] OTHER -> "Unknown exception in execute callback."]
  /\ res' = [res EXCEPT ![j] = IF o = "ok" THEN 1 ELSE 0]
  /\ pc' = [pc EXCEPT ![j] = "executed"]
  /\ UNCHANGED <<nJobs, kind, mgr, self, inDtor, deferred, completeFuncRuns>>
  /\ UNCHANGED <<mgrVars, engVars, tsfnVars, cbVars, procVars, histVars>>
  /\ UNCHANGED <<regVars, hostVars>>

\* The completeFunc lambdas of the addon: reject on err, resolve otherwise.
completeFunc(err) == IF err # "" THEN "rejected" ELSE "resolved"

\* The jobs whose completeFunc captures a ThreadSafeFunction and aborts it.
CallbackKinds == {"countIf", "copyIf"}

\* A complete callback that calls completeFunc on every outcome and still
\* rejects on an error: the deferred is rejected twice.
CompleteCallback_both(j) ==
  /\ aborted = ""
  /\ env = "up"
  /\ pc[j] = "executed"
  /\ completeFuncRuns' = [completeFuncRuns EXCEPT ![j] = @ + 1]
  /\ deferred' = [deferred EXCEPT ![j] = completeFunc(errorMsg[j])]
  /\ tsfn' = [tsfn EXCEPT ![j] = IF kind[j] \in CallbackKinds THEN "aborted" ELSE @]
  /\ releaseCalls' = [releaseCalls EXCEPT ![j] =
                        IF kind[j] \in CallbackKinds THEN @ + 1 ELSE @]
  /\ UNCHANGED <<regCalls, releaseAllCalls, releaseThreads, quiet>>
  /\ UNCHANGED hostVars
  /\ settleCount' = [settleCount EXCEPT ![j] = IF errorMsg[j] = "" THEN @ + 1 ELSE @ + 2]
  /\ pc' = [pc EXCEPT ![j] = "done"]
  /\ UNCHANGED <<nJobs, kind, mgr, self, inDtor, res, errorMsg>>
  /\ UNCHANGED <<call, done_, error, mask, ret, output, hostCalls, input, policy,
                 currentIndex, idxRead, env>>
  /\ UNCHANGED <<mgrVars, engVars, tsfnVars, procVars, histVars>>

\* A complete callback that waits on the host thread until the registry's
\* release thread has finished before it settles a finalize job.
CompleteCallback_waits(j) ==
  /\ aborted = ""
  /\ env = "up"
  /\ pc[j] = "executed"
  /\ kind[j] = "finalize" => WaitForReleaseCompletion
  /\ IF errorMsg[j] = ""
     THEN /\ completeFuncRuns' = [completeFuncRuns EXCEPT ![j] = @ + 1]
          /\ deferred' = [deferred EXCEPT ![j] = completeFunc(errorMsg[j])]
          /\ tsfn' = [tsfn EXCEPT ![j] =
                        IF kind[j] \in CallbackKinds THEN "aborted" ELSE @]
          /\ releaseCalls' = [releaseCalls EXCEPT ![j] =
                                IF kind[j] \in CallbackKinds THEN @ + 1 ELSE @]
     ELSE /\ deferred' = [deferred EXCEPT ![j] = "rejected"]
          /\ UNCHANGED <<completeFuncRuns, tsfn, releaseCalls>>
  /\ UNCHANGED <<regCalls, releaseAllCalls, releaseThreads, quiet>>
  /\ UNCHANGED hostVars
  /\ settleCount' = [settleCount EXCEPT ![j] = @ + 1]
  /\ pc' = [pc EXCEPT ![j] = "done"]
  /\ UNCHANGED <<nJobs, kind, mgr, self, inDtor, res, errorMsg>>
  /\ UNCHANGED <<call, done_, error, mask, ret, output, hostCalls, input, policy,
                 currentIndex, idxRead, env>>
  /\ UNCHANGED <<mgrVars, engVars, tsfnVars, procVars, histVars>>

\* The complete callback, on the host thread: completeFunc is called only
\* when errorMsg is empty; otherwise the promise is rejected right here.
\* completeFunc settles the deferred once; that of a countIf / copyIf job
\* first calls tsfnPtr->Abort().
CompleteCallback(j) ==
  /\ aborted = ""
  /\ env = "up"
  /\ pc[j] = "executed"
  /\ IF errorMsg[j] = ""
     THEN /\ completeFuncRuns' = [completeFuncRuns EXCEPT ![j] = @ + 1]
          /\ deferred' = [deferred EXCEPT ![j] = completeFunc(errorMsg[j])]
          /\ tsfn' = [tsfn EXCEPT ![j] =
                        IF kind[j] \in CallbackKinds THEN "aborted" ELSE @]
          /\ releaseCalls' = [releaseCalls EXCEPT ![j] =
                                IF kind[j] \in CallbackKinds THEN @ + 1 ELSE @]
     ELSE /\ deferred' = [deferred EXCEPT ![j] = "rejected"]
          /\ UNCHANGED <<completeFuncRuns, tsfn, releaseCalls>>
  /\ UNCHANGED <<regCalls, releaseAllCalls, releaseThreads, quiet>>
  /\ UNCHANGED hostVars
  /\ settleCount' = [settleCount EXCEPT ![j] = @ + 1]
  /\ pc' = [pc EXCEPT ![j] = "done"]
  /\ UNCHANGED <<nJobs, kind, mgr, self, inDtor, res, errorMsg>>
  /\ UNCHANGED <<call, done_, error, mask, ret, output, hostCalls, input, policy,
                 currentIndex, idxRead, env>>
  /\ UNCHANGED <<mgrVars, engVars, tsfnVars, procVars, histVars>>

\* A data operation of the addon (sort, count, ...): one more queued job.
Addon_Work == QueueAsyncWork("work") /\ UNCHANGED <<cbVars, hostVars>>

---------------------------------------------------------------------------
(* The callback bridge: countIf / copyIf and GetPredicateMaskBatchUsingTSFN *)

\* The Int32Array arguments of the host: up to MaxLen elements.
Inputs == UNION {[1..n -> 1..MaxLen] : n \in 0..MaxLen}

\* CountIf / CopyIf on the host thread: dataPtr is inputArr.Data(), a
\* pointer into the memory of the host's typed array (no copy is made and no
\* reference to the array is kept); a ThreadSafeFunction is created for the
\* host function and the job is queued. TSFNManager is not told of it.
Addon_CallbackJob(k, d) ==
  /\ k \in CallbackKinds
  /\ Cardinality({j \in Jobs : kind[j] \in CallbackKinds}) < MaxCallbackJobs
  /\ QueueAsyncWork(k)
  /\ tsfn' = [tsfn EXCEPT ![nJobs + 1] = "open"]
  /\ input' = [input EXCEPT ![nJobs + 1] = d]
  /\ dataPtr' = [dataPtr EXCEPT ![nJobs + 1] = [live |-> TRUE, val |-> d]]
  /\ UNCHANGED <<dataCopy, hpxInput, cfgVars>>
  /\ UNCHANGED <<call, done_, error, mask, ret, output, hostCalls, policy,
                 currentIndex, idxRead, settleCount, env>>

\* What a read of data[0..length) through job j's dataPtr yields: the
\* elements the host's array holds now; any values once the memory was freed.
Deref(j) ==
  IF dataPtr[j].live THEN {dataPtr[j].val}
  ELSE {d \in Inputs : Len(d) = Len(input[j])}

\* GetPredicateMaskBatchUsingTSFN up to its wait: mask is zero-filled,
\* dataCopy is filled from data on the pool thread, and NonBlockingCall
\* queues the call; a status other than napi_ok (the function is closing) is
\* thrown as runtime_error, which the execute lambda catches.
Bridge_NonBlockingCall(j) ==
  /\ aborted = ""
  /\ pc[j] = "queued"
  /\ kind[j] \in CallbackKinds
  /\ mask' = [mask EXCEPT ![j] = [n \in 1..Len(input[j]) |-> 0]]
  /\ \E d \in Deref(j) : dataCopy' = [dataCopy EXCEPT ![j] = d]
  /\ UNCHANGED <<dataPtr, hpxInput, cfgVars>>
  /\ IF tsfn[j] = "open"
     THEN /\ call' = [call EXCEPT ![j] = "queued"]
          /\ pc' = [pc EXCEPT ![j] = "bridge_wait"]
          /\ UNCHANGED errorMsg
     ELSE /\ errorMsg' = [errorMsg EXCEPT ![j] = "Failed NonBlockingCall for predicate."]
          /\ pc' = [pc EXCEPT ![j] = "executed"]
          /\ UNCHANGED call
  /\ UNCHANGED <<nJobs, kind, mgr, self, inDtor, res, deferred, completeFuncRuns>>
  /\ UNCHANGED <<tsfn, done_, error, ret, output, hostCalls, input, policy,
                 currentIndex, idxRead, settleCount, env>>
  /\ UNCHANGED <<mgrVars, engVars, tsfnVars, procVars, histVars>>
  /\ UNCHANGED regVars

\* What the host function can answer for an input of n elements: a
\* Uint8Array of any length, an Int32Array of the same length, a value that
\* is no typed array, or an exception.
HostResponses(n) ==
  {[kind |-> "uint8", val |-> v] :
     v \in UNION {[1..m -> {0, 1}] : m \in 0..(MaxLen + 1)}}
  \cup {[kind |-> "int32", val |-> [i \in 1..n |-> 0]],
        [kind |-> "other", val |-> <<>>],
        [kind |-> "throw", val |-> <<>>]}

AllResponses == UNION {HostResponses(n) : n \in 0..MaxLen}

\* The shape test of the callback: a typed array, Uint8Array, same length.
ShapeError(r, n) ==
  IF r.kind \in {"other", "throw"}
  THEN "Predicate must return a typed array (Uint8Array)."
  ELSE IF r.kind # "uint8" \/ Len(r.val) # n
  THEN "Predicate must return a Uint8Array of same length."
  ELSE ""

\* A callback that tests the kind of the answer but not its length: the
\* first length bytes of whatever came back are copied into the mask.
Host_CallJS_typeOnly(j, r, exc) ==
  /\ aborted = ""
  /\ env = "up"
  /\ call[j] = "queued"
  /\ tsfn[j] = "open"
  /\ r \in HostResponses(Len(input[j]))
  /\ hostCalls' = [hostCalls EXCEPT ![j] = @ + 1]
  /\ ret' = [ret EXCEPT ![j] = r]
  /\ call' = [call EXCEPT ![j] = IF r.kind = "throw" THEN "raised" ELSE "ran"]
  /\ IF r.kind = "throw" /\ exc
     THEN UNCHANGED <<done_, error, mask>>
     ELSE /\ done_' = [done_ EXCEPT ![j] = TRUE]
          /\ error' = [error EXCEPT ![j] =
                         IF r.kind = "uint8" THEN "" ELSE ShapeError(r, Len(input[j]))]
          /\ mask' = [mask EXCEPT ![j] =
                        IF r.kind = "uint8"
                        THEN [n \in 1..Len(input[j]) |->
                                IF n <= Len(r.val) THEN r.val[n] ELSE 0]
                        ELSE @]
  /\ UNCHANGED <<tsfn, output, input, policy, currentIndex, idxRead, settleCount, env>>
  /\ UNCHANGED <<mgrVars, engVars, jobVars, tsfnVars, procVars, histVars>>
  /\ UNCHANGED <<regVars, hostVars>>

\* The queued call runs on the host thread: jsFn.Call, the shape test, the
\* copy into mask, and done. When the host function throws, the build
\* decides: with C++ exceptions (exc) the Napi::Error leaves the lambda
\* before done is stored; without them Call returns an empty value, which
\* is no typed array. A function that is no longer open drops its queued
\* call without running the lambda.
Host_CallJS(j, r, exc) ==
  /\ aborted = ""
  /\ call[j] = "queued"
  /\ IF tsfn[j] # "open"
     THEN /\ call' = [call EXCEPT ![j] = "dropped"]
          /\ UNCHANGED <<hostCalls, ret, done_, error, mask>>
     ELSE /\ env = "up"
          /\ r \in HostResponses(Len(input[j]))
          /\ hostCalls' = [hostCalls EXCEPT ![j] = @ + 1]
          /\ ret' = [ret EXCEPT ![j] = r]
          /\ call' = [call EXCEPT ![j] = IF r.kind = "throw" THEN "raised" ELSE "ran"]
          /\ IF r.kind = "throw" /\ exc
             THEN UNCHANGED <<done_, error, mask>>
             ELSE /\ done_' = [done_ EXCEPT ![j] = TRUE]
                  /\ error' = [error EXCEPT ![j] = ShapeError(r, Len(input[j]))]
                  /\ mask' = [mask EXCEPT ![j] =
                                IF ShapeError(r, Len(input[j])) = "" THEN r.val ELSE @]
  /\ UNCHANGED <<tsfn, output, input, policy, currentIndex, idxRead, settleCount, env>>
  /\ UNCHANGED <<mgrVars, engVars, jobVars, tsfnVars, procVars, histVars>>
  /\ UNCHANGED <<regVars, hostVars>>

\* A callback that stores done right after jsFn.Call, before the shape test.
CallJS_Call_doneFirst(j, r, exc) ==
  /\ aborted = ""
  /\ env = "up"
  /\ call[j] = "queued"
  /\ tsfn[j] = "open"
  /\ r \in HostResponses(Len(input[j]))
  /\ hostCalls' = [hostCalls EXCEPT ![j] = @ + 1]
  /\ ret' = [ret EXCEPT ![j] = r]
  /\ call' = [call EXCEPT ![j] = IF r.kind = "throw" /\ exc THEN "raised" ELSE "returned"]
  /\ done_' = [done_ EXCEPT ![j] = ~(r.kind = "throw" /\ exc)]
  /\ UNCHANGED <<tsfn, error, mask, output, input, policy, currentIndex, idxRead,
                 settleCount, env>>
  /\ UNCHANGED <<mgrVars, engVars, jobVars, tsfnVars, procVars, histVars>>
  /\ UNCHANGED <<regVars, hostVars>>

\* The same callback step by step, for the order of its writes against the
\* waiting worker. First jsFn.Call: the answer is in ret; when the host
\* function throws and the build has C++ exceptions, the lambda is left here.
CallJS_Call(j, r, exc) ==
  /\ aborted = ""
  /\ env = "up"
  /\ call[j] = "queued"
  /\ tsfn[j] = "open"
  /\ r \in HostResponses(Len(input[j]))
  /\ hostCalls' = [hostCalls EXCEPT ![j] = @ + 1]
  /\ ret' = [ret EXCEPT ![j] = r]
  /\ call' = [call EXCEPT ![j] = IF r.kind = "throw" /\ exc THEN "raised" ELSE "returned"]
  /\ UNCHANGED <<tsfn, done_, error, mask, output, input, policy, currentIndex, idxRead,
                 settleCount, env>>
  /\ UNCHANGED <<mgrVars, engVars, jobVars, tsfnVars, procVars, histVars>>
  /\ UNCHANGED <<regVars, hostVars>>

\* Then the shape test: *(args->error) is written on a wrong answer, the
\* answer is copied into the mask on a right one.
CallJS_Store(j) ==
  /\ aborted = ""
  /\ call[j] = "returned"
  /\ error' = [error EXCEPT ![j] = ShapeError(ret[j], Len(input[j]))]
  /\ mask' = [mask EXCEPT ![j] =
                IF ShapeError(ret[j], Len(input[j])) = "" THEN ret[j].val ELSE @]
  /\ call' = [call EXCEPT ![j] = "stored"]
  /\ UNCHANGED <<tsfn, done_, ret, output, hostCalls, input, policy, currentIndex,
                 idxRead, settleCount, env>>
  /\ UNCHANGED <<mgrVars, engVars, jobVars, tsfnVars, procVars, histVars>>
  /\ UNCHANGED <<regVars, hostVars>>

\* Last args->done->store(true); the lambda's end frees CallbackData.
CallJS_Done(j) ==
  /\ aborted = ""
  /\ call[j] = "stored"
  /\ done_' = [done_ EXCEPT ![j] = TRUE]
  /\ call' = [call EXCEPT ![j] = IF ret[j].kind = "throw" THEN "raised" ELSE "ran"]
  /\ UNCHANGED <<tsfn, error, mask, ret, output, hostCalls, input, policy,
                 currentIndex, idxRead, settleCount, env>>
  /\ UNCHANGED <<mgrVars, engVars, jobVars, tsfnVars, procVars, histVars>>
  /\ UNCHANGED <<regVars, hostVars>>

\* A function that is no longer open drops its queued call: the lambda does
\* not run.
CallJS_Dropped(j) ==
  /\ aborted = ""
  /\ call[j] = "queued"
  /\ tsfn[j] # "open"
  /\ call' = [call EXCEPT ![j] = "dropped"]
  /\ UNCHANGED <<tsfn, done_, error, mask, ret, output, hostCalls, input, policy,
                 currentIndex, idxRead, settleCount, env>>
  /\ UNCHANGED <<mgrVars, engVars, jobVars, tsfnVars, procVars, histVars>>
  /\ UNCHANGED <<regVars, hostVars>>

\* The execution policies of run_with_policy.
Policies == {"seq", "par", "par_unseq"}

\* The wait loop ends once done is set: a non-empty error is thrown and
\* becomes the job's err; otherwise MaskData is built with its cursor at 0,
\* hpx_count_if / hpx_copy_if fills its input vector from dataPtr, and the
\* algorithm starts under the policy the configuration selects.
Bridge_WaitDone(j, p) ==
  /\ aborted = ""
  /\ pc[j] = "bridge_wait"
  /\ done_[j]
  /\ p \in Policies
  /\ IF error[j] # ""
     THEN /\ errorMsg' = [errorMsg EXCEPT ![j] = error[j]]
          /\ pc' = [pc EXCEPT ![j] = "executed"]
          /\ UNCHANGED <<policy, currentIndex, idxRead, hpxInput>>
     ELSE /\ pc' = [pc EXCEPT ![j] = "predicate"]
          /\ \E d \in Deref(j) : hpxInput' = [hpxInput EXCEPT ![j] = d]
          /\ policy' = [policy EXCEPT ![j] = p]
          /\ currentIndex' = [currentIndex EXCEPT ![j] = 0]
          /\ idxRead' = [idxRead EXCEPT ![j] = [e \in 1..Len(input[j]) |-> -1]]
          /\ UNCHANGED errorMsg
  /\ UNCHANGED <<nJobs, kind, mgr, self, inDtor, res, deferred, completeFuncRuns>>
  /\ UNCHANGED <<tsfn, call, done_, error, mask, ret, output, hostCalls, input,
                 settleCount, env>>
  /\ UNCHANGED <<mgrVars, engVars, tsfnVars, procVars, histVars>>
  /\ UNCHANGED <<regVars, dataPtr, dataCopy, cfgVars>>

\* The elements of the input the algorithm has not yet tested.
Untested(j) == {e \in DOMAIN idxRead[j] : idxRead[j][e] = -1}

\* A predicate the algorithm calls again for an element it has tested.
MaskPredicate_again(j, e) ==
  /\ aborted = ""
  /\ pc[j] = "predicate"
  /\ e \in DOMAIN idxRead[j]
  /\ currentIndex[j] <= Len(mask[j])
  /\ idxRead' = [idxRead EXCEPT ![j][e] = currentIndex[j]]
  /\ currentIndex' = [currentIndex EXCEPT ![j] = @ + 1]
  /\ UNCHANGED <<tsfn, call, done_, error, mask, ret, output, hostCalls, input,
                 policy, settleCount, env>>
  /\ UNCHANGED <<mgrVars, engVars, jobVars, tsfnVars, procVars, histVars>>
  /\ UNCHANGED <<regVars, hostVars>>

\* A predicate whose cursor is read and written in two steps: a call can be
\* handed the value a racing call was handed.
MaskPredicate_torn(j, e) ==
  /\ aborted = ""
  /\ pc[j] = "predicate"
  /\ e \in Untested(j)
  /\ policy[j] = "seq" => \A f \in Untested(j) : e <= f
  /\ \E idx \in {currentIndex[j], currentIndex[j] - 1} :
       /\ idx >= 0
       /\ idxRead' = [idxRead EXCEPT ![j][e] = idx]
  /\ currentIndex' = [currentIndex EXCEPT ![j] = @ + 1]
  /\ UNCHANGED <<tsfn, call, done_, error, mask, ret, output, hostCalls, input,
                 policy, settleCount, env>>
  /\ UNCHANGED <<mgrVars, engVars, jobVars, tsfnVars, procVars, histVars>>
  /\ UNCHANGED <<regVars, hostVars>>

\* MaskPredicate, called by the algorithm once for element e (in element
\* order under seq, in any order otherwise): idx is what fetch_add returns.
MaskPredicate(j, e) ==
  /\ aborted = ""
  /\ pc[j] = "predicate"
  /\ e \in Untested(j)
  /\ policy[j] = "seq" => \A f \in Untested(j) : e <= f
  /\ idxRead' = [idxRead EXCEPT ![j][e] = currentIndex[j]]
  /\ currentIndex' = [currentIndex EXCEPT ![j] = @ + 1]
  /\ UNCHANGED <<tsfn, call, done_, error, mask, ret, output, hostCalls, input,
                 policy, settleCount, env>>
  /\ UNCHANGED <<mgrVars, engVars, jobVars, tsfnVars, procVars, histVars>>
  /\ UNCHANGED <<regVars, hostVars>>

\* A predicate that reads the cursor after incrementing it: the first flag
\* is skipped and the last call reads past the mask.
Flag_preIncrement(j, e) ==
  /\ idxRead[j][e] + 2 <= Len(mask[j])
  /\ mask[j][idxRead[j][e] + 2] = 1

\* What MaskPredicate returned for element e: (*maskHolder)[idx] == 1.
Flag(j, e) == mask[j][idxRead[j][e] + 1] = 1

\* Those of the first n elements of d the predicate of job j held for, in
\* order.
RECURSIVE Kept(_, _, _)
Kept(j, d, n) ==
  IF n = 0 THEN <<>>
  ELSE IF Flag(j, n) THEN Append(Kept(j, d, n - 1), d[n])
  ELSE Kept(j, d, n - 1)

\* hpx_count_if / hpx_copy_if return once every element was tested: the
\* number of elements the predicate held for, or those elements of the
\* input vector, in order.
Hpx_Result(j) ==
  /\ aborted = ""
  /\ pc[j] = "predicate"
  /\ Untested(j) = {}
  /\ IF kind[j] = "countIf"
     THEN /\ res' = [res EXCEPT ![j] =
                       Cardinality({e \in DOMAIN input[j] : Flag(j, e)})]
          /\ UNCHANGED output
     ELSE /\ output' = [output EXCEPT ![j] = Kept(j, hpxInput[j], Len(hpxInput[j]))]
          /\ UNCHANGED res
  /\ errorMsg' = [errorMsg EXCEPT ![j] = ""]
  /\ pc' = [pc EXCEPT ![j] = "executed"]
  /\ UNCHANGED <<nJobs, kind, mgr, self, inDtor, deferred, completeFuncRuns>>
  /\ UNCHANGED <<tsfn, call, done_, error, mask, ret, hostCalls, input, policy,
                 currentIndex, idxRead, settleCount, env>>
  /\ UNCHANGED <<mgrVars, engVars, tsfnVars, procVars, histVars>>
  /\ UNCHANGED <<regVars, hostVars>>

\* The host writes into its typed array while the job that was handed the
\* array is in flight.
Host_WriteArray(j, d) ==
  /\ aborted = ""
  /\ env = "up"
  /\ kind[j] \in CallbackKinds
  /\ pc[j] # "done"
  /\ dataPtr[j].live
  /\ d \in Inputs
  /\ Len(d) = Len(input[j])
  /\ d # dataPtr[j].val
  /\ dataPtr' = [dataPtr EXCEPT ![j].val = d]
  /\ UNCHANGED <<dataCopy, hpxInput, cfgVars>>
  /\ UNCHANGED <<mgrVars, engVars, jobVars, tsfnVars, procVars, histVars, cbVars,
                 regVars>>

\* The host drops its last reference to the typed array and the collector
\* frees its memory while the job is in flight.
Host_CollectArray(j) ==
  /\ aborted = ""
  /\ env = "up"
  /\ kind[j] \in CallbackKinds
  /\ pc[j] # "done"
  /\ dataPtr[j].live
  /\ dataPtr' = [dataPtr EXCEPT ![j].live = FALSE]
  /\ UNCHANGED <<dataCopy, hpxInput, cfgVars>>
  /\ UNCHANGED <<mgrVars, engVars, jobVars, tsfnVars, procVars, histVars, cbVars,
                 regVars>>

\* The other outcome of a read through a dataPtr whose memory was freed: the
\* process crashes.
FreedReadCrash(j) ==
  /\ aborted = ""
  /\ kind[j] \in CallbackKinds
  /\ \/ pc[j] = "queued"
     \/ pc[j] = "bridge_wait" /\ done_[j] /\ error[j] = ""
  /\ ~dataPtr[j].live
  /\ Terminate("read of freed host memory", j)
  /\ UNCHANGED <<mgrVars, engVars, jobVars, tsfnVars, uaf, histVars, cbVars,
                 regVars, hostVars>>

\* The host tears the environment down (the process exits) while jobs are
\* in flight: every ThreadSafeFunction still open is finalized, and nothing
\* runs on the host thread afterwards.
Host_EnvTeardown ==
  /\ aborted = ""
  /\ env = "up"
  /\ env' = "down"
  /\ tsfn' = [j \in Jobs |-> IF tsfn[j] = "open" THEN "finalized" ELSE tsfn[j]]
  /\ UNCHANGED <<call, done_, error, mask, ret, output, hostCalls, input, policy,
                 currentIndex, idxRead, settleCount>>
  /\ UNCHANGED <<mgrVars, engVars, jobVars, tsfnVars, procVars, histVars>>
  /\ UNCHANGED <<regVars, hostVars>>

---------------------------------------------------------------------------
(* Specifications *)

\* The lifecycle: init and finalize jobs, the engine, the release thread.
Next ==
  \/ Addon_InitHPX(EmptyObject)
  \/ Addon_FinalizeHPX
  \/ \E j \in Jobs : Execute_getHPXManager(j)
  \/ \E j \in Jobs : HPXManager_InitHPX(j)
  \/ \E j \in Jobs : InitHPX_fut_get(j)
  \/ \E j \in Jobs : HPXManager_FinalizeHPX(j)
  \/ \E j \in Jobs : FinalizeHPX_join(j)
  \/ \E j \in Jobs : resetHPXManager(j)
  \/ \E j \in Jobs : HPXManager_dtor_end(j)
  \/ \E j \in Jobs : ReleaseAllTSFNs(j)
  \/ \E j \in Jobs : CompleteCallback(j)
  \/ \E t \in Jobs, o \in StartOutcomes : RunHPX(t, o)
  \/ \E t \in Jobs : Main_getHPXManager(t)
  \/ \E t \in Jobs : Main_SetRunning(t)
  \/ \E t \in Jobs : Main_ResolveInitPromise(t)
  \/ \E t \in Jobs : Main_WaitForFinalizeHPX(t)
  \/ \E t \in Jobs, threw \in BOOLEAN : Main_hpx_finalize(t, threw)
  \/ \E t \in Jobs : Main_SetFinalizeResult(t)
  \/ \E t \in Jobs : Main_ClearRunning(t)
  \/ StaleAccessCrash
  \/ ReleaseThread_snapshot
  \/ ReleaseThread_release
  \/ ReleaseThread_signal

Spec == Init /\ [][Next]_vars

\* The work queue alone: data operations and their callbacks.
NextQueue ==
  \/ Addon_Work
  \/ \E j \in Jobs, o \in ExecuteOutcomes : ExecuteCallback(j, o)
  \/ \E j \in Jobs : CompleteCallback(j)

SpecQueue == Init /\ [][NextQueue]_vars

\* The steps of a countIf / copyIf job after it was queued.
BridgeSteps ==
  \/ \E j \in Jobs : Bridge_NonBlockingCall(j)
  \/ \E j \in Jobs, r \in AllResponses, exc \in BOOLEAN : Host_CallJS(j, r, exc)
  \/ \E j \in Jobs, p \in Policies : Bridge_WaitDone(j, p)
  \/ \E j \in Jobs, e \in 1..MaxLen : MaskPredicate(j, e)
  \/ \E j \in Jobs : Hpx_Result(j)
  \/ \E j \in Jobs : CompleteCallback(j)

\* The countIf / copyIf jobs alone.
NextBridge ==
  \/ \E k \in CallbackKinds, d \in Inputs : Addon_CallbackJob(k, d)
  \/ BridgeSteps

SpecBridge == Init /\ [][NextBridge]_vars

\* The same under the scheduling of the program: a pool thread, the host's
\* event loop and the algorithm all take the steps they can take.
SpecBridgeFair == SpecBridge /\ WF_vars(BridgeSteps)

\* A countIf / copyIf job beside a finalizeHPX job with no engine running.
NextRelease ==
  \/ /\ nJobs < MaxReleaseJobs
     /\ \/ \E k \in CallbackKinds, d \in Inputs : Addon_CallbackJob(k, d)
        \/ Addon_FinalizeHPX
  \/ \E j \in Jobs : Execute_getHPXManager(j)
  \/ \E j \in Jobs : HPXManager_FinalizeHPX(j)
  \/ \E j \in Jobs : resetHPXManager(j)
  \/ \E j \in Jobs : ReleaseAllTSFNs(j)
  \/ ReleaseThread_snapshot
  \/ ReleaseThread_release
  \/ ReleaseThread_signal
  \/ BridgeSteps

SpecRelease == Init /\ [][NextRelease]_vars

\* The countIf / copyIf jobs with a host that may exit at any moment.
NextTeardown ==
  \/ NextBridge
  \/ Host_EnvTeardown

SpecTeardown == Init /\ [][NextTeardown]_vars /\ WF_vars(BridgeSteps)

\* The countIf / copyIf jobs with a host that goes on using, or drops, the
\* typed array it passed.
NextHostMemory ==
  \/ NextBridge
  \/ \E j \in Jobs, d \in Inputs : Host_WriteArray(j, d)
  \/ \E j \in Jobs : Host_CollectArray(j)
  \/ \E j \in Jobs : FreedReadCrash(j)

SpecHostMemory == Init /\ [][NextHostMemory]_vars

\* The countIf / copyIf jobs with the host's callback taken step by step,
\* and a host that may exit at any moment.
NextCallback ==
  \/ \E k \in CallbackKinds, d \in Inputs : Addon_CallbackJob(k, d)
  \/ \E j \in Jobs : Bridge_NonBlockingCall(j)
  \/ \E j \in Jobs, r \in AllResponses, exc \in BOOLEAN : CallJS_Call(j, r, exc)
  \/ \E j \in Jobs : CallJS_Store(j)
  \/ \E j \in Jobs : CallJS_Done(j)
  \/ \E j \in Jobs : CallJS_Dropped(j)
  \/ \E j \in Jobs, p \in Policies : Bridge_WaitDone(j, p)
  \/ \E j \in Jobs, e \in 1..MaxLen : MaskPredicate(j, e)
  \/ \E j \in Jobs : Hpx_Result(j)
  \/ \E j \in Jobs : CompleteCallback(j)
  \/ Host_EnvTeardown

SpecCallback == Init /\ [][NextCallback]_vars

\* The init calls with every config object, and the engines they start.
NextConfig ==
  \/ /\ nJobs < MaxConfigJobs
     /\ \E c \in Configs : Addon_InitHPX(c)
  \/ \E c \in Configs, caught \in BOOLEAN : Addon_InitHPX_throws(c, caught)
  \/ \E j \in Jobs : Execute_getHPXManager(j)
  \/ \E j \in Jobs : HPXManager_InitHPX(j)
  \/ \E j \in Jobs : InitHPX_fut_get(j)
  \/ \E j \in Jobs : CompleteCallback(j)
  \/ \E t \in Jobs, o \in StartOutcomes : RunHPX(t, o)
  \/ \E t \in Jobs : Main_getHPXManager(t)
  \/ \E t \in Jobs : Main_SetRunning(t)
  \/ \E t \in Jobs : Main_ResolveInitPromise(t)

SpecConfig == Init /\ [][NextConfig]_vars

\* The registry under every use of its interface: handles are registered
\* (any number of times, before and during a release) beside the jobs that
\* own them and the finalize jobs that release them.
NextRegistry ==
  \/ /\ nJobs < MaxReleaseJobs
     /\ \/ \E k \in CallbackKinds, d \in Inputs : Addon_CallbackJob(k, d)
        \/ Addon_FinalizeHPX
  \/ \E h \in Jobs : RegisterTSFN(h)
  \/ \E j \in Jobs : Execute_getHPXManager(j)
  \/ \E j \in Jobs : HPXManager_FinalizeHPX(j)
  \/ \E j \in Jobs : resetHPXManager(j)
  \/ \E j \in Jobs : ReleaseAllTSFNs(j)
  \/ ReleaseThread_snapshot
  \/ ReleaseThread_release
  \/ ReleaseThread_signal
  \/ BridgeSteps

SpecRegistry == Init /\ [][NextRegistry]_vars

---------------------------------------------------------------------------
(* Properties *)

\* Job j is at a lock_guard on g_hpx_manager_mutex: getHPXManager or
\* resetHPXManager is its next step.
WantsGlobalMutex(j) ==
  \/ pc[j] = "queued" /\ kind[j] \in {"init", "finalize"}
  \/ pc[j] = "reset"

\* Job j is at the lock_guard on mutex_ of instance i: InitHPX or FinalizeHPX
\* is its next step.
WantsMutex(j, i) == pc[j] \in {"InitHPX", "FinalizeHPX"} /\ self[j] = i

\* Instance i has had an engine thread: some InitHPX ran std::thread on it.
HasEngine(i) == \E t \in Jobs : runThis[t] = i

\* The job whose FinalizeHPX fired the finalize signal of instance i has
\* come back from FinalizeHPX.
FinalizeReturned(i) == firedBy[i] # 0 /\ pc[firedBy[i]] # "fin_wait"

\* C1: an InitHPX that finds the instance in Starting or Running fails with
\* -1, spawns no engine thread, makes no new init promise, does not end the
\* process, and leaves every earlier init promise unbroken.
C1_InitWhileStartingOrRunningRejected ==
  \A j \in Jobs :
    (kind[j] = "init" /\ obs[j] \in {"Starting", "Running"}) =>
      /\ res[j] = -1
      /\ runPc[j] = "none"
      /\ initVal[j] = "none"
      /\ abortedBy # j
      /\ \A k \in Jobs : initVal[k] # "broken"

\* C2: a finalize that finds the instance not Running (Stopped, Starting, or
\* after a failed start) gets -1 from FinalizeHPX, its job does not end the
\* process, and once the job is complete its host promise is rejected.
C2_FinalizeWhenNotRunningRejected ==
  \A j \in Jobs :
    (kind[j] = "finalize" /\ obs[j] \in {"Stopped", "Starting", "Failed"}) =>
      /\ res[j] = -1
      /\ abortedBy # j
      /\ (pc[j] = "done" => deferred[j] = "rejected")

\* C3: when a second finalize meets the finalize in flight on the same
\* instance, both callers observe the same result once both are settled.
C3_ConcurrentFinalizeSameResult ==
  \A j, k \in Jobs :
    (/\ j # k
     /\ kind[j] = "finalize" /\ kind[k] = "finalize"
     /\ mgr[k] # 0 /\ firedBy[mgr[k]] = j
     /\ obs[k] = "Stopping"
     /\ pc[j] = "done" /\ pc[k] = "done") => deferred[j] = deferred[k]

\* C4: on every instance, however many finalize calls reach it, the finalize
\* signal is fired at most once, the engine thread is joined at most once, and
\* it has been joined once the FinalizeHPX that fired the signal has returned.
C4_SignalOnceJoinOnce ==
  \A i \in Insts :
    /\ signalCount[i] <= 1
    /\ joinCount[i] <= 1
    /\ (FinalizeReturned(i) /\ HasEngine(i)) => joinCount[i] = 1

\* C4 happens: a second finalize met the one in flight on the instance, which
\* has fired the signal once and joined the engine thread once.
C4_Witness ==
  \E i \in Insts, k \in Jobs :
    /\ firedBy[i] # 0 /\ firedBy[i] # k
    /\ kind[k] = "finalize" /\ mgr[k] = i /\ obs[k] = "Stopping"
    /\ pc[k] \in {"executed", "done"}
    /\ signalCount[i] = 1 /\ joinCount[i] = 1

\* C5: whenever the host sees a finalize settled, the release pass of the
\* registry has completed.
C5_ReleaseCompletedBeforeSettled ==
  \A j \in Jobs :
    (kind[j] = "finalize" /\ pc[j] = "done" /\ deferred[j] = "resolved")
      => release_completed_

\* The order of the engine's part of a finalize on instance i: the signal is
\* fired before the engine is asked to stop, that before the finalize result
\* is set, and that before the engine thread is joined.
SignalStopResultJoin(i) ==
  /\ stopAsked[i] => finalize_signal[i] = "consumed"
  /\ finalize_promise_[i] = "0" => stopAsked[i]
  /\ joinCount[i] > 0 => finalize_promise_[i] \in {"0", "-1"}
  /\ (FinalizeReturned(i) /\ HasEngine(i)) => joinCount[i] = 1

C7_FailedStartDiscardedAndRetried ==
  \A j \in Jobs :
    /\ (kind[j] = "init" /\ obs[j] = "Failed")
         => (abortedBy # j /\ runPc[j] # "none")
    /\ (kind[j] = "init" /\ pc[j] = "done" /\ initVal[j] = "-1")
         => ~alive[mgr[j]]

\* C8: the init promise holds 0 only when running_ is already true (until a
\* finalize fires), the init promise of a failed start holds -1, and the host
\* promise is resolved only on 0 and rejected on -1.
C8_InitResolvesAfterRunning ==
  /\ \A i \in Insts :
       (/\ alive[i] /\ init_promise_[i] # 0
        /\ initVal[init_promise_[i]] = "0"
        /\ finalize_signal[i] = "unset") => running_[i]
  /\ \A t \in Jobs :
       startOutcome[t] \in {"returned_false", "threw"} => initVal[t] = "-1"
  /\ \A j \in Jobs :
       (kind[j] = "init" /\ deferred[j] = "resolved") => initVal[j] = "0"
  /\ \A j \in Jobs :
       (kind[j] = "init" /\ pc[j] = "done" /\ initVal[j] = "-1")
         => deferred[j] = "rejected"

\* C9: when hpx::finalize() threw, the finalize result is set all the same
\* once WaitForFinalizeHPX is over, the engine thread is joined once
\* FinalizeHPX has returned, and the instance is destroyed once the finalize
\* job has finished its execute phase.
C9_StopExceptionStillTearsDown ==
  \A t \in Jobs :
    stopThrew[t] =>
      LET i == mainMgr[t] IN
      /\ mainPc[t] \in {"ClearRunning", "done"}
           => finalize_promise_[i] \in {"0", "-1"}
      /\ (FinalizeReturned(i) /\ HasEngine(i)) => joinCount[i] = 1
      /\ (firedBy[i] # 0 /\ pc[firedBy[i]] \in {"executed", "done"})
           => ~alive[i]

\* C9 happens: hpx::finalize() threw, and the finalize is settled with the
\* engine thread joined and the instance destroyed.
C9_Witness ==
  \E t \in Jobs :
    /\ stopThrew[t]
    /\ firedBy[mainMgr[t]] # 0 /\ pc[firedBy[mainMgr[t]]] = "done"
    /\ finalize_promise_[mainMgr[t]] = "0"
    /\ joinCount[mainMgr[t]] = 1
    /\ ~alive[mainMgr[t]]

\* C10: every job that has completed has had its complete function run
\* exactly once, whatever the outcome of execute.
C10_CompleteRunsOncePerJob ==
  \A j \in Jobs : pc[j] = "done" => completeFuncRuns[j] = 1

\* C11: the deferred of every job is settled at most once, it is settled
\* exactly when the job's complete callback has run, and by then the job's
\* execute has left its result or its error message.
C11_SettledOnceAfterExecute ==
  \A j \in Jobs :
    /\ settleCount[j] <= 1
    /\ (settleCount[j] = 1) = (deferred[j] \in {"resolved", "rejected"})
    /\ deferred[j] \in {"resolved", "rejected"}
         => (pc[j] = "done" /\ (res[j] = 1 \/ errorMsg[j] # ""))
    /\ pc[j] \in {"queued", "executed"} => deferred[j] = "pending"

\* C11 happens: a job issued later is settled (rejected) while an earlier
\* one has not started its execute, and another is resolved.
C11_Witness ==
  \E j, k \in Jobs :
    /\ j < k
    /\ pc[j] = "queued"
    /\ pc[k] = "done" /\ deferred[k] = "rejected" /\ settleCount[k] = 1

\* C13: whatever executeFunc throws, the process goes on, the job reaches its
\* complete callback with a result or else an error message, and a job with
\* an error message is rejected by its own complete callback.
C13_ExecuteErrorsCaptured ==
  /\ aborted = ""
  /\ \A j \in Jobs :
       /\ pc[j] \in {"executed", "done"} => ((res[j] = 1) = (errorMsg[j] = ""))
       /\ (pc[j] = "done" /\ errorMsg[j] # "") => deferred[j] = "rejected"

\* C13 happens: executeFunc threw something that is no std::exception, and
\* the job was rejected with the message of the catch-all.
C13_Witness ==
  \E j \in Jobs :
    /\ pc[j] = "done"
    /\ errorMsg[j] = "Unknown exception in execute callback."
    /\ deferred[j] = "rejected"
    /\ aborted = ""

\* C12: every operation the host issues eventually settles, with a value or
\* with an error, under fair scheduling of the pool threads and the host.
C12_EveryJobEventuallySettles ==
  \A j \in Jobs : (pc[j] = "queued") ~> (deferred[j] \in {"resolved", "rejected"})

\* The answer of the host function to job j has the wrong length or kind.
WrongShape(j) ==
  /\ ret[j].kind \in {"uint8", "int32", "other"}
  /\ ~(ret[j].kind = "uint8" /\ Len(ret[j].val) = Len(input[j]))

\* The messages GetPredicateMaskBatchUsingTSFN has for a wrong answer.
ShapeMismatch ==
  {"Predicate must return a typed array (Uint8Array).",
   "Predicate must return a Uint8Array of same length."}

\* C14: an answer of the wrong length or kind fails the invocation with a
\* shape error that rejects the job; nothing of the answer reaches the mask,
\* the predicate is never evaluated and no result is produced.
C14_WrongShapeRejected ==
  \A j \in Jobs :
    WrongShape(j) =>
      /\ error[j] \in ShapeMismatch
      /\ mask[j] = [n \in 1..Len(input[j]) |-> 0]
      /\ pc[j] \in {"bridge_wait", "executed", "done"}
      /\ policy[j] = "none" /\ currentIndex[j] = 0
      /\ res[j] = 0 /\ output[j] = <<>>
      /\ pc[j] \in {"executed", "done"} => errorMsg[j] = error[j]
      /\ pc[j] = "done" => deferred[j] = "rejected"

\* C14 happens: a Uint8Array shorter than the input came back for a two
\* element input, and the job was rejected.
C14_Witness ==
  \E j \in Jobs :
    /\ Len(input[j]) = 2
    /\ ret[j].kind = "uint8" /\ Len(ret[j].val) = 1 /\ ret[j].val[1] = 1
    /\ pc[j] = "done"
    /\ deferred[j] = "rejected"

\* C15: a handle that existed when release_all was invoked starts no batch
\* invocation once the release has completed: the invocation fails with an
\* error, the call is not queued for the host function.
C15_ReleasedHandleRejectsInvoke ==
  [][\A j \in Jobs :
       ( /\ kind[j] \in CallbackKinds
         /\ pc[j] = "queued" /\ pc'[j] # "queued"
         /\ release_completed_
         /\ \E k \in Jobs : k > j /\ kind[k] = "finalize" )
       => (pc'[j] = "executed" /\ errorMsg'[j] # "" /\ call'[j] = "none")]_vars

\* C16: when the handle goes away under a queued call, the blocked worker
\* eventually returns with an error.
C16_BlockedWorkerReturnsOnRelease ==
  \A j \in Jobs : (call[j] = "dropped") ~> (pc[j] = "executed" /\ errorMsg[j] # "")

\* C17: when the host function raises an error, the waiting worker is
\* released with an error and the job's promise is rejected.
C17_HostFaultRejectsJob ==
  \A j \in Jobs :
    (call[j] = "raised") ~> (errorMsg[j] # "" /\ deferred[j] = "rejected")

\* The elements of job j's input the predicate was called for.
Tested(j) == {e \in DOMAIN idxRead[j] : idxRead[j][e] # -1}

\* C18: the predicate calls of a job read pairwise different positions of
\* the mask, handed out in the order of the calls: after k calls exactly
\* the positions 0..k-1 were read, each once.
C18_MaskPositionsConsumedOnce ==
  \A j \in Jobs :
    /\ \A e, f \in Tested(j) : idxRead[j][e] = idxRead[j][f] => e = f
    /\ {idxRead[j][e] : e \in Tested(j)} = 0..(currentIndex[j] - 1)
    /\ currentIndex[j] <= Len(mask[j])

\* C18 happens: under a parallel policy the second element was tested
\* first and read position 0, the first element read position 1.
C18_Witness ==
  \E j \in Jobs :
    /\ policy[j] \in {"par", "par_unseq"}
    /\ Len(input[j]) = 2
    /\ idxRead[j][2] = 0
    /\ idxRead[j][1] = 1

\* The host function of job j marked every element as true.
AllTrue(j) ==
  /\ ret[j].kind = "uint8"
  /\ Len(ret[j].val) = Len(input[j])
  /\ \A n \in 1..Len(ret[j].val) : ret[j].val[n] = 1

\* C19: with a host predicate that marks every element, countIf counts
\* every element and copyIf returns the input, under every policy.
C19_AllTruePredicateIsCountAndCopy ==
  \A j \in Jobs :
    (AllTrue(j) /\ pc[j] \in {"executed", "done"}) =>
      /\ errorMsg[j] = ""
      /\ kind[j] = "countIf" => res[j] = Len(input[j])
      /\ kind[j] = "copyIf" => output[j] = input[j]
      /\ pc[j] = "done" => deferred[j] = "resolved"

\* C19 happens: a copyIf of two different elements under a parallel policy,
\* tested out of order, resolved with the input.
C19_Witness ==
  \E j \in Jobs :
    /\ kind[j] = "copyIf"
    /\ AllTrue(j)
    /\ input[j] = <<2, 1>>
    /\ policy[j] = "par"
    /\ idxRead[j][2] = 0
    /\ pc[j] = "done"
    /\ output[j] = <<2, 1>>

\* C20: every open handle of a job is in the live set of TSFNManager (a
\* registration is refused only while a release is underway).
C20_HandleRegisteredOnCreation ==
  \A j \in Jobs :
    tsfn[j] = "open" =>
      \/ releasing_
      \/ \E n \in 1..Len(tsfn_list_) : tsfn_list_[n] = j

\* C21: the handle of a job is released exactly once, and no later than the
\* job settles: a settled job's handle is no longer open.
C21_HandleReleasedOnceWhenSettled ==
  \A j \in Jobs :
    kind[j] \in CallbackKinds =>
      /\ releaseCalls[j] <= 1
      /\ pc[j] = "done" => (tsfn[j] # "open" /\ releaseCalls[j] = 1)

\* C22: RegisterTSFN appends the handle to the live set, except that a call
\* made while a release is underway leaves the live set unchanged; a handle
\* whose registration was only attempted after the release started is never
\* in the live set, never in the copy of the release pass, never released
\* by it.
C22_RegisterRefusedDuringRelease ==
  /\ [][\A h \in Jobs :
         regCalls'[h] # regCalls[h] =>
           tsfn_list_' = IF releasing_ THEN tsfn_list_ ELSE Append(tsfn_list_, h)]_vars
  /\ [](\A h \in Jobs :
         regCalls[h].early = 0 =>
           /\ \A n \in 1..Len(tsfn_list_) : tsfn_list_[n] # h
           /\ \A n \in 1..Len(tsfn_copy) : tsfn_copy[n] # h
           /\ h \notin released)

\* C22 happens: a registration was attempted during the release only, and
\* the release pass is over.
C22_Witness ==
  \E h \in Jobs :
    /\ regCalls[h].late >= 1
    /\ regCalls[h].early = 0
    /\ WaitForReleaseCompletion
    /\ tsfn[h] = "open"

\* C23: a call of ReleaseAllTSFNs made after a release was started changes
\* nothing in the registry and launches no thread: there is one release
\* thread and one pass however many calls are made, and the one completion
\* flag every caller can wait for is set by that pass and stays set.
C23_ReleaseAllIdempotent ==
  /\ [][/\ (releaseAllCalls' # releaseAllCalls /\ releasing_) =>
             (UNCHANGED tsfnVars /\ UNCHANGED releaseThreads)
        /\ release_completed_ => release_completed_']_vars
  /\ [](/\ releaseThreads <= 1
        /\ releaseAllCalls > 0 => releaseThreads = 1
        /\ WaitForReleaseCompletion => relPc = "done")

\* C23 happens: ReleaseAllTSFNs was called twice, the second time while the
\* release thread of the first call had not finished.
C23_Witness ==
  /\ releaseAllCalls = 2
  /\ relPc \in {"snapshot", "release", "signal"}
  /\ releaseThreads = 1

\* C24: when the completion flag is set, every handle that was in the live
\* set when the release was started has been released by the pass.
C24_LiveSetReleasedBeforeCompletion ==
  WaitForReleaseCompletion =>
    \A h \in Jobs :
      regCalls[h].early > 0 => (h \in released /\ tsfn[h] # "open")

\* C24 happens: a handle was registered, and again during the release; the
\* release completed and the handle was released by it.
C24_Witness ==
  \E h \in Jobs :
    /\ regCalls[h].early = 1
    /\ regCalls[h].late = 1
    /\ WaitForReleaseCompletion
    /\ tsfn[h] = "released"

\* C25: no handle is released twice: Release() and Abort() are called at
\* most once per handle altogether.
C25_NoHandleReleasedTwice ==
  \A h \in Jobs : releaseCalls[h] <= 1

\* C26: mutex_ is not held across a blocking wait: no job holds it while it
\* waits for the finalize result and the join of the engine thread.
C26_MutexNotHeldAcrossWait ==
  \A i \in Insts : mutex_[i] # 0 => pc[mutex_[i]] # "fin_wait"

\* C27: the mutexes are taken in one order. A job that holds a mutex_
\* waits for no mutex; the registry is entered with no manager mutex held;
\* so no two jobs each hold the mutex the other one waits for, and no job
\* waits under g_hpx_manager_mutex for an engine thread that waits for it.
C27_NoLockOrderCycle ==
  /\ \A j \in Jobs :
        (\E i \in Insts : mutex_[i] = j) =>
          (~WantsGlobalMutex(j) /\ \A i \in Insts : ~WantsMutex(j, i))
  /\ \A j \in Jobs :
        pc[j] = "release" =>
          (g_hpx_manager_mutex # j /\ \A i \in Insts : mutex_[i] # j)
  /\ \A j, k \in Jobs :
        ~ /\ j # k
          /\ g_hpx_manager_mutex = j
          /\ \E i \in Insts : WantsMutex(j, i) /\ mutex_[i] = k
          /\ WantsGlobalMutex(k)
  /\ \A j, t \in Jobs :
        ~ /\ g_hpx_manager_mutex = j
          /\ pc[j] = "fin_wait"
          /\ mainPc[t] = "getmgr"

\* C27 happens: a job inside resetHPXManager holds g_hpx_manager_mutex and
\* waits for the mutex_ another job holds.
C27_Witness ==
  \E j, k \in Jobs :
    /\ j # k
    /\ g_hpx_manager_mutex = j
    /\ WantsMutex(j, self[j])
    /\ mutex_[self[j]] = k

C29_NotRunningFinalizeHasNoEffect ==
  (\A j \in 1..nJobs : kind[j] = "finalize") =>
    /\ releaseAllCalls = 0
    /\ ~releasing_
    /\ \A i \in 1..nInst : alive[i]

\* C30: an init issued after a finalize has resolved and everything before
\* it has settled finds no instance, creates a new one that no earlier job
\* used, with its finalize signal unset, and is not refused as already
\* running.
C30_InitAfterFinalizeStartsFresh ==
  \A k \in Jobs :
    ( /\ k > 1
      /\ kind[k] = "init" /\ quiet[k]
      /\ kind[k - 1] = "finalize" /\ deferred[k - 1] = "resolved" )
    => /\ pc[k] = "queued" => g_hpx_manager_instance = 0
       /\ pc[k] # "queued" => \A j \in 1..(k - 1) : mgr[k] # mgr[j]
       /\ pc[k] = "InitHPX" =>
            /\ alive[mgr[k]]
            /\ StateOf(mgr[k]) = "Stopped"
            /\ finalize_signal[mgr[k]] = "unset"
       /\ pc[k] \notin {"queued", "InitHPX"} => obs[k] = "Stopped"

\* C30 happens: init, finalize, and a second init that resolved.
C30_Witness ==
  \E k \in Jobs :
    /\ k > 1
    /\ kind[k] = "init" /\ quiet[k]
    /\ kind[k - 1] = "finalize" /\ deferred[k - 1] = "resolved"
    /\ pc[k] = "done" /\ deferred[k] = "resolved"
    /\ running_[mgr[k]]

\* C31: the execute phase of a job works on the elements the host passed
\* when it issued the job, whatever the host does with its array meanwhile:
\* the host function is sent those elements, copyIf returns elements of
\* them, and no read of the input ends the process.
C31_ExecuteReadsOnlyCopies ==
  /\ aborted = ""
  /\ \A j \in Jobs :
       kind[j] \in CallbackKinds =>
         /\ call[j] # "none" => dataCopy[j] = input[j]
         /\ \A n \in 1..Len(output[j]) :
              \E m \in 1..Len(input[j]) : output[j][n] = input[j][m]

\* The values of field k that are invalid: a string outside the list, a
\* number that is not positive, an empty name.
Invalid(c, k) ==
  /\ k \in Json(c)
  /\ CASE k = "executionPolicy" ->
            c[k].t = "string" /\ c[k].s \notin {"seq", "par", "par_unseq"}
       [] k \in {"threshold", "threadCount"} -> c[k].t = "number" /\ c[k].n <= 0
       [] k = "logLevel" ->
            c[k].t = "string"
            /\ ToUpperCase(c[k].s) \notin {"DEBUG", "INFO", "WARN", "ERROR"}
       [] k = "addonName" -> c[k].t = "string" /\ c[k].s = ""
       [] OTHER -> FALSE

\* C32: after an init call, every field for which the call's config object
\* had an invalid value holds its default, whatever earlier calls stored;
\* and no value of a config object ends the process.
C32_InvalidFieldsFallBackToDefault ==
  /\ aborted # "exception left InitHPX"
  /\ \A j \in Jobs : \A n \in 1..Len(FieldOrder) :
       (kind[j] = "init" /\ Invalid(configObj[j], FieldOrder[n]))
         => configAfter[j][FieldOrder[n]] = HPXUserConfig[FieldOrder[n]]

\* C33: no thread reads or writes a destroyed HPXManager, and none is left
\* with such an access ahead of it: when resetHPXManager destroys an
\* instance, the engine that serves it has cleared the running flag and
\* every job that took a reference has finished with it.
C33_NoAccessAfterDestroy ==
  /\ ~uaf
  /\ aborted # "access to a destroyed HPXManager"
  /\ \A t \in Jobs :
       (mainMgr[t] # 0 /\ ~alive[mainMgr[t]]) => mainPc[t] = "done"
  /\ \A j \in Jobs :
       (self[j] # 0 /\ ~alive[self[j]]) => pc[j] \notin {"InitHPX", "FinalizeHPX", "fin_wait"}

\* C34: hpx_thread_ is never assigned and never destroyed while joinable:
\* no InitHPX and no destruction of an instance ends the process through
\* the thread's assignment or destructor.
C34_EngineThreadJoinedBeforeReplaced ==
  aborted \notin {"thread assigned while joinable", "thread destroyed while joinable"}

\* C35: once a release pass has completed the registry takes handles
\* again: a RegisterTSFN call made after the completion flag was set appends
\* the handle to the live set, and a ReleaseAllTSFNs call made after it
\* starts a pass that releases the live set.
C35_RegistryUsableAfterRelease ==
  [][/\ \A h \in Jobs :
          (regCalls'[h] # regCalls[h] /\ release_completed_)
            => tsfn_list_' = Append(tsfn_list_, h)
     /\ (releaseAllCalls' # releaseAllCalls /\ release_completed_)
            => relPc' = "snapshot"]_vars

\* C36: an init call that is rejected because the runtime is running has
\* left the user configuration as it found it, so that run_with_policy picks
\* for every input size the policy it picked before the call.
C36_RejectedInitKeepsConfig ==
  \A k \in Jobs :
    (kind[k] = "init" /\ obs[k] = "Running" /\ res[k] = -1) =>
      /\ configAfter[k] = configBefore[k]
      /\ \A n \in 0..MaxLen :
           run_with_policy(configAfter[k], n) = run_with_policy(configBefore[k], n)

\* Those of the first n elements of job j's input whose own mask entry is 1.
RECURSIVE Masked(_, _)
Masked(j, n) ==
  IF n = 0 THEN <<>>
  ELSE IF mask[j][n] = 1 THEN Append(Masked(j, n - 1), input[j][n])
  ELSE Masked(j, n - 1)

\* C37: under every policy and every order of the predicate calls, the
\* call for an element reads the mask entry at the element's own position,
\* and copyIf returns the elements whose own mask entry is 1, in input order.
C37_CopyIfKeepsOwnMaskBits ==
  \A j \in Jobs :
    /\ \A e \in Tested(j) : idxRead[j][e] = e - 1
    /\ (kind[j] = "copyIf" /\ pc[j] \in {"executed", "done"} /\ errorMsg[j] = "")
         => output[j] = Masked(j, Len(input[j]))

C39_CallbackWritesWhileWorkerWaits ==
  /\ [][\A j \in Jobs :
         /\ (error'[j] # error[j] \/ done_'[j] # done_[j])
              => (pc[j] = "bridge_wait" /\ pc'[j] = "bridge_wait")
         /\ done_[j] => (error'[j] = error[j] /\ done_'[j])]_vars
  /\ [](\A j \in Jobs :
         /\ done_[j] => call[j] \in {"ran", "raised"}
         /\ (call[j] # "none" /\ pc[j] \in {"predicate", "executed", "done"})
              => done_[j])

\* C39 happens: the error of a wrong answer is written and done not yet
\* set, the worker still inside the invocation.
C39_Witness ==
  \E j \in Jobs :
    /\ call[j] = "stored"
    /\ error[j] # ""
    /\ ~done_[j]
    /\ pc[j] = "bridge_wait"

\* C40: over all calls of ReleaseAllTSFNs at most one release thread is
\* started: release_thread_ is assigned only when no release thread was
\* started before, so never while it holds a joinable thread.
C40_AtMostOneReleaseThread ==
  /\ [][releaseThreads' # releaseThreads =>
          (releaseThreads = 0 /\ relPc = "none" /\ ~releasing_)]_vars
  /\ [](/\ releaseThreads <= 1
        /\ (relPc # "none") = (releaseThreads = 1))

\* C40 happens: three finalize calls have each called ReleaseAllTSFNs, the
\* pass of the first is over, and one thread was started.
C40_Witness ==
  /\ releaseAllCalls = 3
  /\ release_completed_
  /\ releaseThreads = 1

====
